---- MODULE Spec2Model ----
(***************************************************************************)
(* Training orchestrator of the retail forecast / recommend backend:       *)
(* data versions and their training records, the two process-wide artifact *)
(* slots, the progress broadcast to websocket subscribers, and the request *)
(* handlers (upload, train-now, serving) with the background trainings.    *)
(*                                                                         *)
(* Threads.  Every request handler is an `async def` without an await in   *)
(* its body, so handlers run one at a time on the event-loop thread        *)
(* (thread 0).  The automatic trainings of an upload are synchronous       *)
(* background tasks: they run one after the other in a worker thread of    *)
(* their own (thread u for the u-th upload), concurrently with the event   *)
(* loop and with the tasks of other uploads.                               *)
(***************************************************************************)
EXTENDS Integers, Sequences, FiniteSets

\* ---------------------------------------------------------------- bounds
MaxRequests   == 2  \* requests handled (upload, train-now, serving, connect)
MaxUploads    == 2  \* upload calls among them
MaxMissing    == 1  \* sheets absent from an uploaded workbook
MaxSockets    == 1  \* websocket connections
MaxRequestsWS == 3  \* requests handled in the websocket specification
MaxUploadsWS  == 1  \* upload calls in the websocket specification
MaxRequestsFair == 2  \* requests handled in the fair specification
MaxUploadsFair  == 1  \* upload calls in the fair specification
MaxRows         == 8  \* rows of the feature matrix for product p1
MaxSales        == 1  \* largest sales_quantity of a row
MaxHorizon      == 2  \* largest horizon of a forecast call
MaxPairs        == 2  \* pairs in a batch_forecast call

\* ------------------------------------------------------------- constants
Models     == {"forecast", "recommend"}
TableNames == {"transaction_items", "transaction", "product", "customer"}
NoVal      == "none"      \* an absent dict key / Python None
NoArtifact == [thread |-> 0, req |-> 0, ver |-> 0, upl |-> 0]   \* an empty slot (None)
NoParsed   == [sheets |-> {}, upl |-> 0, holiday_marked |-> FALSE]
NoResp     == [kind |-> NoVal, code |-> 0, detail |-> NoVal, art |-> NoArtifact,
               trained |-> FALSE]
Loop       == 0           \* the event-loop thread
Workers    == 1..MaxUploads   \* worker u runs the background tasks of upload u
Threads    == {Loop} \cup Workers
Versions   == 1..MaxUploads
Sockets    == 1..MaxSockets

PROGRESS_STAGES_FORECAST ==
    << <<5, "init">>, <<25, "feature_engine">>, <<40, "feature_done">>,
       <<50, "model_init">>, <<85, "model_train">>, <<95, "metrics">>,
       <<100, "complete">> >>

PROGRESS_STAGES_RECOMMEND ==
    << <<5, "init">>, <<20, "interaction_matrix">>, <<40, "product_features">>,
       <<55, "model_init">>, <<85, "model_train">>, <<95, "metrics">>,
       <<100, "complete">> >>

Stages(model) ==
    IF model = "forecast" THEN PROGRESS_STAGES_FORECAST ELSE PROGRESS_STAGES_RECOMMEND

\* the loop runs over PROGRESS_STAGES_X[:-1]
NStages(model) == Len(Stages(model)) - 1

\* a sheet the forecast features use when the workbook has it
OptionalSheets == {"holiday"}

\* workbooks an upload can bring: the complete workbook, which has the
\* optional sheet, and the ones that lack up to MaxMissing of the other sheets
AvailableSheetSets ==
    { IF S = {} THEN TableNames \cup OptionalSheets ELSE TableNames \ S :
        S \in { M \in SUBSET TableNames : Cardinality(M) <= MaxMissing } }

VARIABLES
    data_versions,      \* app.state.data_versions: version id -> version data
    current_version,    \* app.state.current_version (0 is None)
    forecast_pipeline,  \* app.state.forecast_pipeline
    recommender,        \* app.state.recommender
    ws_clients,         \* app.state.ws_clients
    conn,               \* per websocket: "closed", "open" or "broken" (peer gone)
    pending_sends,      \* sockets with a send_json task created and not yet run
    thr,                \* per thread: position and locals of its handler / task
    nUploads,           \* upload calls so far
    nReq,               \* requests handled so far
    lastOk,             \* per model: artifact of the latest run that succeeded
    fcst,               \* a ForecastingPipeline taken alone: data, instance, call
    reco                \* a HybridRecommender taken alone: data, instance, call

\* the state of the application
appvars == << data_versions, current_version, forecast_pipeline, recommender,
              ws_clients, conn, pending_sends, thr, nUploads, nReq, lastOk >>

vars == << data_versions, current_version, forecast_pipeline, recommender,
           ws_clients, conn, pending_sends, thr, nUploads, nReq, lastOk,
           fcst, reco >>

\* ------------------------------------------------------ training records
\* data.py: the training dict a new version starts with, per model
training_status ==
    [ m \in Models |->
        [ status |-> "pending", progress |-> 0, error |-> NoVal,
          error_trace |-> NoVal, metrics |-> NoVal, matrix_info |-> NoVal ] ]

TrainingOf(dv, v, model) == dv[v].training[model]

\* training_events._init_training_record (status defaults to "running")
_init_training_record(dv, v, model, status) ==
    IF v \notin DOMAIN dv THEN dv
    ELSE IF model \notin {"forecast", "recommend"} THEN dv
    ELSE [ dv EXCEPT ![v].training[model] =
             [ @ EXCEPT !.status = status, !.progress = 0, !.error = NoVal,
                        !.metrics = NoVal, !.matrix_info = NoVal ] ]

\* training_events._update_progress: the record part
_update_progress(dv, v, model, progress) ==
    IF v \notin DOMAIN dv THEN dv
    ELSE [ dv EXCEPT ![v].training[model].progress = progress ]

\* the payload _update_progress broadcasts (read after the write)
ProgressPayload(dv, v, model, progress, stage) ==
    [ model |-> model, version |-> v, status |-> TrainingOf(dv, v, model).status,
      progress |-> progress, stage |-> stage,
      metrics |-> TrainingOf(dv, v, model).metrics,
      error |-> TrainingOf(dv, v, model).error ]

\* Python truthiness of an optional value: None and "" are falsy
Truthy(x) == x # NoVal /\ x # ""

\* progress _finalize leaves: kept on "failed", forced to 100 otherwise
FinalProgress(status, progress) ==
    IF status = "failed" THEN progress ELSE 100

\* training_events._finalize: the record part
_finalize(dv, v, model, status, metrics, matrix_info, error, error_trace) ==
    IF v \notin DOMAIN dv THEN dv
    ELSE [ dv EXCEPT ![v].training[model] =
             [ status      |-> status,
               metrics     |-> IF Truthy(metrics) THEN metrics ELSE @.metrics,
               matrix_info |-> IF Truthy(matrix_info) THEN matrix_info ELSE @.matrix_info,
               error       |-> IF Truthy(error) THEN error ELSE @.error,
               error_trace |-> IF Truthy(error_trace) THEN error_trace ELSE @.error_trace,
               progress    |-> FinalProgress(status, @.progress) ] ]

\* the payload _finalize broadcasts
FinalPayload(dv, v, model, status) ==
    [ model |-> model, version |-> v, status |-> status,
      progress |-> TrainingOf(dv, v, model).progress,
      stage |-> IF status = "completed" THEN "complete" ELSE "error",
      metrics |-> TrainingOf(dv, v, model).metrics,
      error |-> TrainingOf(dv, v, model).error ]

\* ------------------------------------------------------------ broadcast
\* training_events.broadcast_training_update, per subscriber: does
\* asyncio.create_task(ws.send_json(payload)) raise?  It needs the running
\* event loop of the calling thread: on the event-loop thread it only queues
\* the send, in a worker thread it raises RuntimeError for every subscriber.
CreateTaskRaises(onLoop, ws) == ~onLoop

\* the subscribers the broadcast collects in `dead` and discards
DeadClients(clients, onLoop) == { ws \in clients : CreateTaskRaises(onLoop, ws) }

\* app.state.ws_clients after broadcast_training_update
broadcast_training_update(clients, onLoop) == clients \ DeadClients(clients, onLoop)

\* the send tasks the broadcast queued on the event loop
QueuedSends(clients, onLoop) == clients \ DeadClients(clients, onLoop)

\* ------------------------------------------------------------- threads
Idle ==
    [ pc |-> "idle", ver |-> 0, model |-> NoVal, avail |-> {}, parsed |-> NoParsed,
      req |-> 0, i |-> 0, prog |-> 0, raised |-> FALSE, art |-> NoArtifact,
      metrics |-> NoVal, matrix_info |-> NoVal, nerr |-> 0, resp |-> NoResp,
      solo |-> TRUE ]

OnLoop(t) == t = Loop

RunPcs == {"stage", "swap", "finalize", "except", "ret"}

Slot(model) == IF model = "forecast" THEN forecast_pipeline ELSE recommender

\* data.py: 自動訓練条件チェック
can_train_forecast(available_sheets) ==
    \A sheet \in {"transaction_items", "product"} : sheet \in available_sheets

can_train_recommend(available_sheets) ==
    /\ "transaction_items" \in available_sheets
    /\ "customer" \in available_sheets
    /\ "product" \in available_sheets

can_train(model, available_sheets) ==
    IF model = "forecast" THEN can_train_forecast(available_sheets)
    ELSE can_train_recommend(available_sheets)

\* the sheets a pipeline cannot do without:
\* FeatureEngine.generate_forecast_features; RecommendationFeatureEngine
\* .generate_user_item_matrix and .generate_product_features
RequiredSheets(model) ==
    IF model = "forecast" THEN {"transaction_items", "transaction"}
    ELSE {"transaction_items", "transaction", "product"}

\* the stages whose work can raise: feature generation and fitting
FallibleStages(model) ==
    IF model = "forecast" THEN {"feature_engine", "model_train"}
    ELSE {"interaction_matrix", "product_features", "model_train"}

\* the sheets whose absence makes the work of a stage raise ValueError
StageSheets(model, stage) ==
    CASE model = "forecast" /\ stage = "feature_engine" ->
             {"transaction_items", "transaction"}
      [] model = "recommend" /\ stage = "interaction_matrix" ->
             {"transaction_items", "transaction"}
      [] model = "recommend" /\ stage = "product_features" -> {"product"}
      [] OTHER -> {}

\* Does the work of a stage raise?  It does when a sheet it needs is absent;
\* on the data it has (joins, aggregation, fitting) it may or may not.
StageRaises(model, stage, sheets) ==
    IF stage \notin FallibleStages(model) THEN {FALSE}
    ELSE IF ~(StageSheets(model, stage) \subseteq sheets) THEN {TRUE}
    ELSE {FALSE, TRUE}

\* str(e) of what the stage raised: the ValueError of a missing sheet has a
\* message; another exception may have none (MemoryError(), a bare assert)
ExcMessages(model, stage, sheets) ==
    IF ~(StageSheets(model, stage) \subseteq sheets) THEN {"msg"}
    ELSE {"msg", ""}

\* FeatureEngine._add_holiday_features writes the columns date and
\* is_holiday into the holiday table of parsed_data, the table of the data
\* version itself.  Does the work of a stage get that far?  It does in a
\* feature generation that returns; one that raises may raise before or
\* after it.
MarksHoliday(model, stage, sheets, raised) ==
    IF /\ model = "forecast" /\ stage = "feature_engine"
       /\ "holiday" \in sheets
       /\ StageSheets(model, stage) \subseteq sheets
    THEN IF raised THEN {FALSE, TRUE} ELSE {TRUE}
    ELSE {FALSE}

\* the data versions after the write into the holiday table of `parsed`,
\* the parsed_data a run took from version v when it started
WriteHoliday(dv, v, parsed, marks) ==
    IF marks /\ v \in DOMAIN dv /\ dv[v].parsed_data.upl = parsed.upl
    THEN [ dv EXCEPT ![v].parsed_data.holiday_marked = TRUE ]
    ELSE dv

\* ---------------------------------------------------------------- Init
\* no pipeline / recommender is looked at alone
NoCall == [phase |-> "none"]

\* app/main.py: グローバル状態
InitApp ==
    /\ data_versions = << >>
    /\ current_version = 0
    /\ forecast_pipeline = NoArtifact
    /\ recommender = NoArtifact
    /\ ws_clients = {}
    /\ conn = [s \in Sockets |-> "closed"]
    /\ pending_sends = {}
    /\ thr = [t \in Threads |-> Idle]
    /\ nUploads = 0
    /\ nReq = 0
    /\ lastOk = [m \in Models |-> NoArtifact]

Init == InitApp /\ fcst = NoCall /\ reco = NoCall

\* -------------------------------------------------------------- upload
\* version_id = datetime.now().strftime("%Y%m%d_%H%M%S"): the clock has a
\* resolution of one second and does not run backwards, so an upload gets
\* the id of the previous upload (same second) or a later one.
VersionIdsNow ==
    IF current_version = 0 THEN {1} ELSE {current_version, current_version + 1}

\* data.py upload_excel up to the store into app.state (lines 50-106)
upload_excel(maxReq, maxUploads, sheets, v) ==
    /\ thr[Loop].pc = "idle"
    /\ nReq < maxReq
    /\ nUploads < maxUploads
    /\ data_versions' =
         [ x \in DOMAIN data_versions \cup {v} |->
             IF x = v
             THEN [ parsed_data |-> [sheets |-> sheets, upl |-> nUploads + 1,
                                     holiday_marked |-> FALSE],
                    training |-> training_status ]
             ELSE data_versions[x] ]
    /\ current_version' = v
    /\ nUploads' = nUploads + 1
    /\ nReq' = nReq + 1
    /\ thr' = [thr EXCEPT ![Loop] =
                 [Idle EXCEPT !.pc = "upload_ret", !.ver = v, !.avail = sheets]]
    /\ UNCHANGED << fcst, reco, forecast_pipeline, recommender, ws_clients, conn,
                    pending_sends, lastOk >>

Upload(maxReq, maxUploads) ==
    \E sheets \in AvailableSheetSets, v \in VersionIdsNow :
        upload_excel(maxReq, maxUploads, sheets, v)

\* upload_excel from background_tasks.add_task to its return: the two
\* automatic trainings are queued, to run in a worker after the response
UploadReturn ==
    /\ thr[Loop].pc = "upload_ret"
    /\ thr' = [thr EXCEPT
                 ![Loop] = Idle,
                 ![nUploads] = [Idle EXCEPT !.pc = "task", !.model = "forecast",
                                            !.ver = thr[Loop].ver,
                                            !.avail = thr[Loop].avail]]
    /\ UNCHANGED << fcst, reco, data_versions, current_version, forecast_pipeline,
                    recommender, ws_clients, conn, pending_sends, nUploads,
                    nReq, lastOk >>

\* ------------------------------------------------------- training runs
\* what a thread does after its run returned: the event loop is free again,
\* a worker goes on to the next background task of its upload
AfterRun(t, th) ==
    IF OnLoop(t) THEN Idle
    ELSE IF th.model = "forecast"
         THEN [Idle EXCEPT !.pc = "task", !.model = "recommend",
                           !.ver = th.ver, !.avail = th.avail]
         ELSE [Idle EXCEPT !.pc = "done"]

\* thread x is inside a run on (v, model)
Overlaps(x, v, model) ==
    /\ thr[x].pc \in {"stage", "swap", "finalize", "except"}
    /\ thr[x].ver = v /\ thr[x].model = model

\* run_forecast_training / run_recommend_training up to the try block:
\* fetch the version (it exists), take its parsed_data, reset the record
\* (`solo` notes, next to the locals, whether the run has been the only
\* one on its (version, model) since it started)
StartRun(t, v, model, th, req) ==
    /\ data_versions' = _init_training_record(data_versions, v, model, "running")
    /\ thr' = [ x \in Threads |->
                 IF x = t
                 THEN [th EXCEPT !.pc = "stage", !.ver = v, !.model = model,
                                 !.parsed = data_versions[v].parsed_data,
                                 !.req = req, !.i = 1, !.prog = 0,
                                 !.solo = ~\E y \in Threads \ {t} : Overlaps(y, v, model)]
                 ELSE IF Overlaps(x, v, model)
                 THEN [thr[x] EXCEPT !.solo = FALSE]
                 ELSE thr[x] ]

\* data.py _auto_train_forecast / _auto_train_recommend, can_train false
AutoSkip(t) ==
    /\ t \in Workers /\ thr[t].pc = "task"
    /\ ~can_train(thr[t].model, thr[t].avail)
    /\ data_versions' =
         [data_versions EXCEPT ![thr[t].ver].training[thr[t].model].status = "skipped"]
    /\ thr' = [thr EXCEPT ![t] = AfterRun(t, thr[t])]
    /\ UNCHANGED << fcst, reco, current_version, forecast_pipeline, recommender, ws_clients,
                    conn, pending_sends, nUploads, nReq, lastOk >>

\* data.py _auto_train_forecast / _auto_train_recommend, can_train true
AutoRun(t) ==
    /\ t \in Workers /\ thr[t].pc = "task"
    /\ can_train(thr[t].model, thr[t].avail)
    /\ StartRun(t, thr[t].ver, thr[t].model, thr[t], 0)
    /\ UNCHANGED << fcst, reco, current_version, forecast_pipeline, recommender, ws_clients,
                    conn, pending_sends, nUploads, nReq, lastOk >>

\* version_id = version or app.state.current_version, for a request whose
\* version parameter is req (0: not given)
VersionId(req) == IF req = 0 THEN current_version ELSE req

\* the version parameters a request can carry: none, an id, an unknown id
ReqVersions == 0..(MaxUploads + 1)

VersionKnown(req) == VersionId(req) # 0 /\ VersionId(req) \in DOMAIN data_versions

\* forecast.py train_forecast_model / recommend.py train_recommender: the
\* version is known, the run starts on the event-loop thread
TrainNow(maxReq, model, req) ==
    /\ thr[Loop].pc = "idle"
    /\ nReq < maxReq
    /\ VersionKnown(req)
    /\ nReq' = nReq + 1
    /\ StartRun(Loop, VersionId(req), model, Idle, nReq + 1)
    /\ UNCHANGED << fcst, reco, current_version, forecast_pipeline, recommender, ws_clients,
                    conn, pending_sends, nUploads, lastOk >>

\* the artifact a run builds at stage model_init
\* (ForecastingPipeline(features_df) / HybridRecommender())
NewArtifact(t, th) ==
    [thread |-> t, req |-> th.req, ver |-> th.ver, upl |-> th.parsed.upl]

\* a try block whose failure falls through to the assignment of the slot
NextPc_FailureSwaps(model, i, raised) ==
    IF raised THEN "swap"
    ELSE IF i < NStages(model) THEN "stage" ELSE "swap"

\* where the try block goes after the work of stage i
NextPc(model, i, raised) ==
    IF raised THEN "except"
    ELSE IF i < NStages(model) THEN "stage" ELSE "swap"

\* the event thread t emits in its next step (a stage or the end of a run)
StageEvent(t) ==
    LET th == thr[t]
        progress == Stages(th.model)[th.i][1]
        stage    == Stages(th.model)[th.i][2]
    IN  ProgressPayload(_update_progress(data_versions, th.ver, th.model, progress),
                        th.ver, th.model, progress, stage)

\* one iteration of `for progress, stage in PROGRESS_STAGES_X[:-1]`:
\* _update_progress, its broadcast, then the work of the stage
Stage(t) ==
    /\ thr[t].pc = "stage"
    /\ LET th       == thr[t]
           progress == Stages(th.model)[th.i][1]
           stage    == Stages(th.model)[th.i][2]
       IN  /\ ws_clients' = broadcast_training_update(ws_clients, OnLoop(t))
           /\ pending_sends' = pending_sends \cup QueuedSends(ws_clients, OnLoop(t))
           /\ \E raised \in StageRaises(th.model, stage, th.parsed.sheets) :
              /\ \E marks \in MarksHoliday(th.model, stage, th.parsed.sheets, raised) :
                   data_versions' =
                     WriteHoliday(_update_progress(data_versions, th.ver,
                                                   th.model, progress),
                                  th.ver, th.parsed, marks)
              /\ thr' = [thr EXCEPT ![t] =
                   [th EXCEPT
                      !.prog = progress,
                      !.raised = raised,
                      !.pc = NextPc(th.model, th.i, raised),
                      !.i = IF ~raised /\ th.i < NStages(th.model)
                            THEN th.i + 1 ELSE th.i,
                      !.art = IF stage = "model_init" THEN NewArtifact(t, th) ELSE @,
                      !.metrics = IF stage = "model_train" /\ ~raised
                                     /\ th.model = "forecast"
                                  THEN "metrics" ELSE @,
                      !.matrix_info = IF stage = "interaction_matrix" /\ ~raised
                                      THEN "matrix_info" ELSE @]]
    /\ UNCHANGED << fcst, reco, current_version, forecast_pipeline, recommender, conn,
                    nUploads, nReq, lastOk >>

\* app.state.forecast_pipeline = pipeline / app.state.recommender = recommender
Swap(t) ==
    /\ thr[t].pc = "swap"
    /\ forecast_pipeline' =
         IF thr[t].model = "forecast" THEN thr[t].art ELSE forecast_pipeline
    /\ recommender' =
         IF thr[t].model = "recommend" THEN thr[t].art ELSE recommender
    /\ lastOk' = IF ~thr[t].raised
                 THEN [lastOk EXCEPT ![thr[t].model] = thr[t].art]
                 ELSE lastOk
    /\ thr' = [thr EXCEPT ![t].pc = "finalize"]
    /\ UNCHANGED << fcst, reco, data_versions, current_version, ws_clients, conn,
                    pending_sends, nUploads, nReq >>

\* an except block that does not close the record
RunStatus_FailureKeepsRunning(raised) == IF raised THEN "running" ELSE "completed"

\* the status a run writes at its end
RunStatus(raised) == IF raised THEN "failed" ELSE "completed"

\* the record after the _finalize of thread t's run; msg is str(e)
Finalized(t, msg) ==
    LET th == thr[t]
    IN  IF th.pc = "except"
        THEN _finalize(data_versions, th.ver, th.model, RunStatus(TRUE),
                       NoVal, NoVal, msg, "traceback")
        ELSE _finalize(data_versions, th.ver, th.model, RunStatus(FALSE),
                       th.metrics,
                       IF th.model = "recommend" THEN th.matrix_info ELSE NoVal,
                       NoVal, NoVal)

\* _finalize and its broadcast, from the end of the try block ("finalize")
\* or from the except block ("except", with error=str(e), error_trace=tb)
Finalize(t) ==
    /\ thr[t].pc \in {"finalize", "except"}
    /\ LET th == thr[t]
       IN  /\ \E msg \in ExcMessages(th.model, Stages(th.model)[th.i][2],
                                     th.parsed.sheets) :
                 data_versions' = Finalized(t, msg)
           /\ ws_clients' = broadcast_training_update(ws_clients, OnLoop(t))
           /\ pending_sends' = pending_sends \cup QueuedSends(ws_clients, OnLoop(t))
           /\ thr' = [thr EXCEPT ![t] =
                        [th EXCEPT !.pc = "ret",
                                   !.nerr = IF th.pc = "except" THEN @ + 1 ELSE @]]
    /\ UNCHANGED << fcst, reco, current_version, forecast_pipeline, recommender, conn,
                    nUploads, nReq, lastOk >>

\* the run returns: train-now answers (200, or 500 when the result holds
\* 'error'), the background task ends
Return(t) ==
    /\ thr[t].pc = "ret"
    /\ thr' = [thr EXCEPT ![t] = AfterRun(t, thr[t])]
    /\ UNCHANGED << fcst, reco, data_versions, current_version, forecast_pipeline,
                    recommender, ws_clients, conn, pending_sends, nUploads,
                    nReq, lastOk >>

\* ------------------------------------------------------------- serving
\* a handler without the check of the slot
ServeResponse_NoSlotCheck(model, req, fails) ==
    LET answer(code, detail, art) ==
            [kind |-> "serve", code |-> code, detail |-> detail, art |-> art,
             trained |-> lastOk[model] # NoArtifact]
    IN  IF ~VersionKnown(req) THEN answer(404, "data_not_found", NoArtifact)
        ELSE IF fails THEN answer(500, "serving_error", NoArtifact)
        ELSE answer(200, "result", Slot(model))

\* forecast.py get_forecast / recommend.py get_recommendations, answered by
\* the artifact in the slot; `fails` says whether forecast()/recommend()
\* raises on the request's arguments
\* (`trained` notes, next to the response, whether a run of that model type
\* had completed successfully when the request was served)
ServeResponse(model, req, fails) ==
    LET answer(code, detail, art) ==
            [kind |-> "serve", code |-> code, detail |-> detail, art |-> art,
             trained |-> lastOk[model] # NoArtifact]
    IN  IF ~VersionKnown(req) THEN answer(404, "data_not_found", NoArtifact)
        ELSE IF Slot(model) = NoArtifact
        THEN answer(400, "model_not_trained", NoArtifact)
        ELSE IF fails THEN answer(500, "serving_error", NoArtifact)
        ELSE answer(200, "result", Slot(model))

Serve(maxReq, model, req) ==
    /\ thr[Loop].pc = "idle"
    /\ nReq < maxReq
    /\ nReq' = nReq + 1
    /\ \E fails \in BOOLEAN :
         thr' = [thr EXCEPT ![Loop] =
                   [Idle EXCEPT !.pc = "respond", !.model = model,
                                !.ver = VersionId(req),
                                !.resp = ServeResponse(model, req, fails)]]
    /\ UNCHANGED << fcst, reco, data_versions, current_version, forecast_pipeline,
                    recommender, ws_clients, conn, pending_sends, nUploads,
                    lastOk >>

\* train_forecast_model / train_recommender for a version that is not known
TrainNotFound(maxReq, model, req) ==
    /\ thr[Loop].pc = "idle"
    /\ nReq < maxReq
    /\ ~VersionKnown(req)
    /\ nReq' = nReq + 1
    /\ thr' = [thr EXCEPT ![Loop] =
                 [Idle EXCEPT !.pc = "respond", !.model = model,
                              !.ver = VersionId(req),
                              !.resp = [kind |-> "train", code |-> 404,
                                        detail |-> "data_not_found",
                                        art |-> NoArtifact, trained |-> FALSE]]]
    /\ UNCHANGED << fcst, reco, data_versions, current_version, forecast_pipeline,
                    recommender, ws_clients, conn, pending_sends, nUploads,
                    lastOk >>

\* the handler hands its response (or HTTPException) to the framework
Respond ==
    /\ thr[Loop].pc = "respond"
    /\ thr' = [thr EXCEPT ![Loop] = Idle]
    /\ UNCHANGED << fcst, reco, data_versions, current_version, forecast_pipeline,
                    recommender, ws_clients, conn, pending_sends, nUploads,
                    nReq, lastOk >>

\* ---------------------------------------------------------- websockets
\* app/main.py training_ws: accept and subscribe
ws_connect(maxReq, s) ==
    /\ thr[Loop].pc = "idle"
    /\ nReq < maxReq
    /\ conn[s] = "closed"
    /\ nReq' = nReq + 1
    /\ conn' = [conn EXCEPT ![s] = "open"]
    /\ ws_clients' = ws_clients \cup {s}
    /\ UNCHANGED << fcst, reco, data_versions, current_version, forecast_pipeline,
                    recommender, pending_sends, thr, nUploads, lastOk >>

\* the peer of an open connection goes away (at any time)
PeerGone(s) ==
    /\ conn[s] = "open"
    /\ conn' = [conn EXCEPT ![s] = "broken"]
    /\ UNCHANGED << fcst, reco, data_versions, current_version, forecast_pipeline,
                    recommender, ws_clients, pending_sends, thr, nUploads,
                    nReq, lastOk >>

\* training_ws: receive_text raises on the dead connection, discard it
ws_disconnect(s) ==
    /\ thr[Loop].pc = "idle"
    /\ conn[s] = "broken"
    /\ conn' = [conn EXCEPT ![s] = "closed"]
    /\ ws_clients' = ws_clients \ {s}
    /\ UNCHANGED << fcst, reco, data_versions, current_version, forecast_pipeline,
                    recommender, pending_sends, thr, nUploads, nReq, lastOk >>

\* the event loop runs a queued ws.send_json task: it delivers on an open
\* connection and raises inside the task (caught by nobody) otherwise
send_json(s) ==
    /\ thr[Loop].pc = "idle"
    /\ s \in pending_sends
    /\ pending_sends' = pending_sends \ {s}
    /\ UNCHANGED << fcst, reco, data_versions, current_version, forecast_pipeline,
                    recommender, ws_clients, conn, thr, nUploads, nReq, lastOk >>

\* ------------------------------------------------------ specifications
\* the steps of the threads once their requests are in
Run ==
    \/ UploadReturn
    \/ \E t \in Workers : AutoSkip(t)
    \/ \E t \in Workers : AutoRun(t)
    \/ \E t \in Threads : Stage(t)
    \/ \E t \in Threads : Swap(t)
    \/ \E t \in Threads : Finalize(t)
    \/ \E t \in Threads : Return(t)

Next ==
    \/ Upload(MaxRequests, MaxUploads)
    \/ \E model \in Models, req \in ReqVersions : TrainNow(MaxRequests, model, req)
    \/ \E model \in Models, req \in ReqVersions : TrainNotFound(MaxRequests, model, req)
    \/ \E model \in Models, req \in ReqVersions : Serve(MaxRequests, model, req)
    \/ Respond
    \/ Run

Spec == Init /\ [][Next]_vars

\* the same program with websocket subscribers
NextWS ==
    \/ Upload(MaxRequestsWS, MaxUploadsWS)
    \/ \E model \in Models, req \in ReqVersions : TrainNow(MaxRequestsWS, model, req)
    \/ \E s \in Sockets : ws_connect(MaxRequestsWS, s)
    \/ \E s \in Sockets : PeerGone(s)
    \/ \E s \in Sockets : ws_disconnect(s)
    \/ \E s \in Sockets : send_json(s)
    \/ Run

SpecWS == Init /\ [][NextWS]_vars

\* ------------------------------------------------------------- readers
\* the training record of (v, model), for the properties below
Record(v, model) == data_versions[v].training[model]

StatusIn(dv, v, model) ==
    IF v \in DOMAIN dv THEN dv[v].training[model].status ELSE "absent"

Status(v, model) == StatusIn(data_versions, v, model)

\* thread t is inside a training run / has reached the end of one
InRun(t) == thr[t].pc \in {"stage", "swap", "finalize", "except"}
AtRunEnd(t) == thr[t].pc = "ret"

\* the stage whose work raised, for a thread whose run raised
RaisedAt(t) == Stages(thr[t].model)[thr[t].i][2]

\* ---------------------------------------------------------------- C1
\* C1: for each model type the artifact slot holds the artifact built by
\* the latest run of that type that completed successfully (the latest to
\* assign the slot at the end of its try block), and is empty when no run
\* did; the slot changes only when a run that did not raise assigns its
\* own artifact, so a failing run leaves it as it was.
C1_SlotHoldsLatestSuccess ==
    /\ [](\A model \in Models : Slot(model) = lastOk[model])
    /\ [][ \A model \in Models :
             Slot(model)' # Slot(model) =>
                 \E t \in Threads :
                     /\ thr[t].pc = "swap" /\ thr'[t].pc = "finalize"
                     /\ thr[t].model = model /\ ~thr[t].raised
                     /\ thr[t].art # NoArtifact
                     /\ Slot(model)' = thr[t].art ]_vars

\* a run has failed while the slot still holds an earlier run's artifact
C1_Witness ==
    \E t \in Threads :
        /\ AtRunEnd(t) /\ thr[t].raised
        /\ Slot(thr[t].model) # NoArtifact
        /\ Slot(thr[t].model).thread # t

\* ---------------------------------------------------------------- C2
\* C2 (as claimed): a run whose fit raises in stage model_train ends with
\* status failed, error populated and the progress of stage model_init
\* (50 for forecast, 55 for recommend).
C2_FitFailureFreezesAtModelInit ==
    \A t \in Threads :
        (AtRunEnd(t) /\ thr[t].raised /\ RaisedAt(t) = "model_train") =>
            /\ Record(thr[t].ver, thr[t].model).status = "failed"
            /\ Truthy(Record(thr[t].ver, thr[t].model).error)
            /\ Record(thr[t].ver, thr[t].model).progress
                 = Stages(thr[t].model)[4][1]

\* ---------------------------------------------------------------- C3
\* C3 (as claimed): every change of a record's status is pending->running,
\* pending->skipped, running->completed or running->failed, so a record
\* that is completed, failed or skipped never changes again.
C3_StatusTransitions ==
    [][ \A v \in DOMAIN data_versions, model \in Models :
          Status(v, model)' # Status(v, model) =>
              << Status(v, model), Status(v, model)' >> \in
                  { <<"pending", "running">>, <<"pending", "skipped">>,
                    <<"running", "completed">>, <<"running", "failed">> } ]_vars

\* ---------------------------------------------------------------- C4
\* C4 (as claimed): when a sheet the model's pipeline requires is absent
\* from the upload, the automatic training of that model sets the record
\* to skipped and does not enter the run.
C4_MissingSheetSkips ==
    [][ \A t \in Workers :
          ( /\ thr[t].pc = "task" /\ thr'[t] # thr[t]
            /\ ~(RequiredSheets(thr[t].model) \subseteq thr[t].avail) ) =>
              /\ StatusIn(data_versions', thr[t].ver, thr[t].model) = "skipped"
              /\ thr'[t].pc \notin RunPcs ]_vars

\* ---------------------------------------------------------------- C5
\* C5 (as claimed): when a stage raises, the run ends with the record
\* failed, its progress the last value the run set, a non-empty error
\* stored, and exactly one error event emitted.
C5_FailureRecorded ==
    \A t \in Threads :
        (AtRunEnd(t) /\ thr[t].raised) =>
            /\ Record(thr[t].ver, thr[t].model).status = "failed"
            /\ Record(thr[t].ver, thr[t].model).progress = thr[t].prog
            /\ Truthy(Record(thr[t].ver, thr[t].model).error)
            /\ thr[t].nerr = 1

\* ---------------------------------------------------------------- C6
\* the threads get to run: a handler or background task that can take its
\* next step eventually takes it
Fairness ==
    /\ WF_vars(UploadReturn)
    /\ \A t \in Workers : WF_vars(AutoSkip(t)) /\ WF_vars(AutoRun(t))
    /\ \A t \in Threads :
         /\ WF_vars(Stage(t)) /\ WF_vars(Swap(t))
         /\ WF_vars(Finalize(t)) /\ WF_vars(Return(t))

\* one upload with its two automatic trainings, and train-now calls
NextFair ==
    \/ Upload(MaxRequestsFair, MaxUploadsFair)
    \/ \E model \in Models, req \in ReqVersions :
          TrainNow(MaxRequestsFair, model, req)
    \/ Run

FairSpec == Init /\ [][NextFair]_vars /\ Fairness

\* C6: every run that has started reaches its end, and a record that is
\* running eventually is completed or failed, whichever stage raises.
C6_RunsEnd ==
    /\ \A t \in Threads : InRun(t) ~> AtRunEnd(t)
    /\ \A v \in Versions, model \in Models :
         (Status(v, model) = "running")
             ~> (Status(v, model) \in {"completed", "failed"})

\* a run that raised has ended with its record failed
C6_Witness ==
    \E t \in Threads :
        /\ AtRunEnd(t) /\ thr[t].raised
        /\ Status(thr[t].ver, thr[t].model) = "failed"

\* ---------------------------------------------------------------- C7
\* the subscribers a message cannot be delivered to: their connection is
\* no longer open
Undeliverable(clients) == { s \in clients : conn[s] # "open" }

\* C7 (as claimed): a broadcast removes from the set exactly the
\* subscribers delivery fails to; every other subscriber is sent the event
\* and stays subscribed.
C7_BroadcastRemovesOnlyFailed ==
    [][ \A t \in Threads :
          (thr[t].pc \in {"stage", "finalize", "except"} /\ thr'[t] # thr[t]) =>
              /\ ws_clients' = ws_clients \ Undeliverable(ws_clients)
              /\ (ws_clients \ Undeliverable(ws_clients)) \subseteq pending_sends'
      ]_vars

\* ---------------------------------------------------------------- C8
\* C8 (as claimed): when upload_excel returns, the automatic trainings of
\* this upload have not started, and the forecast and recommend records of
\* the new version are both pending with progress 0.
C8_UploadReturnsPending ==
    thr[Loop].pc = "upload_ret" =>
        /\ thr[nUploads].pc = "idle"
        /\ \A model \in Models :
             /\ Record(thr[Loop].ver, model).status = "pending"
             /\ Record(thr[Loop].ver, model).progress = 0

\* ---------------------------------------------------------------- C9
\* C9 (as claimed): when a train-now call returns, the record of its
\* (version, model) is completed or failed, also under an overlapping
\* automatic run.
C9_TrainNowReturnsTerminal ==
    AtRunEnd(Loop) =>
        Status(thr[Loop].ver, thr[Loop].model) \in {"completed", "failed"}

\* --------------------------------------------------------------- C10
\* a serving request has been answered while no run of its model type had
\* completed successfully
ServedUntrained ==
    /\ thr[Loop].pc = "respond"
    /\ thr[Loop].resp.kind = "serve"
    /\ ~thr[Loop].resp.trained

\* C10 (as claimed): such a request gets the model-not-trained error and
\* no predictions or recommendations.
C10_UntrainedIsModelNotTrained ==
    ServedUntrained =>
        /\ thr[Loop].resp.detail = "model_not_trained"
        /\ thr[Loop].resp.art = NoArtifact

\* C10 (amended): such a request gets an error and no predictions or
\* recommendations: data-not-found (404) when its version is unknown or no
\* version exists, model-not-trained (400) otherwise.
C10_UntrainedIsError ==
    ServedUntrained =>
        /\ thr[Loop].resp.art = NoArtifact
        /\ IF thr[Loop].ver # 0 /\ thr[Loop].ver \in DOMAIN data_versions
           THEN /\ thr[Loop].resp.code = 400
                /\ thr[Loop].resp.detail = "model_not_trained"
           ELSE /\ thr[Loop].resp.code = 404
                /\ thr[Loop].resp.detail = "data_not_found"

\* model-not-trained has been answered for a version whose only run of
\* that model type failed or was skipped
C10_Witness ==
    /\ ServedUntrained
    /\ thr[Loop].resp.code = 400
    /\ Status(thr[Loop].ver, thr[Loop].model) \in {"failed", "skipped"}

\* --------------------------------------------------------------- C11
\* C11 (as claimed): whatever the uploads and training runs so far, a
\* serving request that names a data version and is answered with
\* predictions or recommendations is answered by an artifact trained on
\* that version, on the tables that version holds.
C11_ServedByOwnVersion ==
    \A model \in Models, req \in Versions :
        LET response == ServeResponse(model, req, FALSE)
        IN  response.code = 200 =>
                /\ response.art.ver = req
                /\ response.art.upl = data_versions[req].parsed_data.upl

\* ====================================================================
\* models/forecasting.py: a ForecastingPipeline taken alone
\* ====================================================================
\* numbers: the means and predictions are fractions num/den in lowest terms
RECURSIVE GCD(_, _)
GCD(a, b) == IF b = 0 THEN a ELSE GCD(b, a % b)

Rat(n, d) == IF n = 0 THEN [num |-> 0, den |-> 1]
             ELSE [num |-> n \div GCD(n, d), den |-> d \div GCD(n, d)]

\* float('nan'): the mean of an empty series
NaN == [num |-> 0, den |-> 0]

RatAdd(x, y) == IF x.den = 0 \/ y.den = 0 THEN NaN
                ELSE Rat(x.num * y.den + y.num * x.den, x.den * y.den)

RatDiv(x, n) == IF x.den = 0 \/ n = 0 THEN NaN ELSE Rat(x.num, x.den * n)

RECURSIVE RatSum(_)
RatSum(xs) == IF xs = << >> THEN Rat(0, 1)
              ELSE RatAdd(xs[1], RatSum(Tail(xs)))

RECURSIVE IntSum(_)
IntSum(xs) == IF xs = << >> THEN 0 ELSE xs[1] + IntSum(Tail(xs))

\* Series.tail(n)
TailN(xs, n) ==
    IF Len(xs) <= n THEN xs ELSE SubSeq(xs, Len(xs) - n + 1, Len(xs))

\* Series.mean()
Mean(xs) == IF xs = << >> THEN NaN ELSE Rat(IntSum(xs), Len(xs))

\* ------------------------------------------------------------- the data
ProductIds == {"p1", "p2"}     \* p2 has no row in any feature matrix
StoreIds   == {"s1"}
Pairs      == ProductIds \X StoreIds

SalesSeqs(n) == UNION { [1..k -> 0..MaxSales] : k \in 0..n }

RowsOf(product_id, sales) ==
    [ k \in 1..Len(sales) |->
        [product_id |-> product_id, store_id |-> "s1",
         sales_quantity |-> sales[k]] ]

\* feature_engine._aggregate_sales: one row per product x store x date, in
\* the order of the group keys; store_id is a column only when the
\* workbook has one
FeatureMatrices ==
    { [columns |-> cols, rows |-> RowsOf("p1", a)] :
        a \in SalesSeqs(MaxRows),
        cols \in { {"product_id", "store_id", "date", "sales_quantity", "year"},
                   {"product_id", "date", "sales_quantity", "year"} } }

\* pd.DataFrame(): no column, no row
EmptyMatrix == [columns |-> {}, rows |-> << >>]

Keyed(df) == "product_id" \in df.columns /\ "store_id" \in df.columns

\* df[(df.product_id == product_id) & (df.store_id == store_id)]
SelectSeq2(rows, product_id, store_id) ==
    SelectSeq(rows, LAMBDA r : r.product_id = product_id /\ r.store_id = store_id)

SalesOf(rows) == [k \in 1..Len(rows) |-> rows[k].sales_quantity]

\* ---------------------------------------------------- BaselineForecaster
window == 7

GlobalKey == << "global", "global" >>

\* a baseline that averages the whole series of a group
BaselineFit_WholeSeries(df) ==
    IF Keyed(df)
    THEN LET groups == { << df.rows[k].product_id, df.rows[k].store_id >> :
                           k \in 1..Len(df.rows) }
         IN  [ key \in groups |->
                 Mean(SalesOf(SelectSeq2(df.rows, key[1], key[2]))) ]
    ELSE [ key \in {GlobalKey} |-> Mean(SalesOf(df.rows)) ]

\* BaselineForecaster.fit: the history dict
BaselineFit(df) ==
    IF Keyed(df)
    THEN LET groups == { << df.rows[k].product_id, df.rows[k].store_id >> :
                           k \in 1..Len(df.rows) }
         IN  [ key \in groups |->
                 Mean(TailN(SalesOf(SelectSeq2(df.rows, key[1], key[2])), window)) ]
    ELSE [ key \in {GlobalKey} |-> Mean(TailN(SalesOf(df.rows), window)) ]

\* BaselineForecaster.predict: np.array([prediction] * horizon)
BaselinePredict(history, product_id, store_id, horizon) ==
    LET key == IF product_id # "" /\ store_id # ""
               THEN << product_id, store_id >> ELSE GlobalKey
        prediction == IF key \in DOMAIN history THEN history[key]
                      ELSE IF GlobalKey \in DOMAIN history THEN history[GlobalKey]
                      ELSE Rat(0, 1)
    IN  [ i \in 1..horizon |-> prediction ]

\* ---------------------------------------------------- LightGBMForecaster
\* what the fitted booster returns on the latest row of a product; the
\* booster may return a negative number
Preds == {-1, 2}
Boosters == [ {"p1"} -> Preds ]

NoModel == [ product_id \in {} |-> 0 ]       \* self.model = None
NoNames == {"None"}                          \* self.feature_names = None

exclude_cols == {"sales_quantity", "date", "product_id", "store_id",
                 "customer_id", "transaction_id", "product_name", "store_name"}

\* LightGBMForecaster.prepare_features: the feature names
prepare_features(df) == df.columns \ exclude_cols

\* LightGBMForecaster.fit: the rows lgb.train gets, X.iloc[:split_idx]
split_idx(df) == (Len(df.rows) * 4) \div 5

\* does lgb.train raise?  It does without a training row; otherwise the
\* library decides
LgbTrainRaises(df) == IF split_idx(df) = 0 THEN {TRUE} ELSE {TRUE, FALSE}

\* an exception leaving a call
Raise(msg) == [raised |-> msg]
IsRaise(r) == "raised" \in DOMAIN r

\* LightGBMForecaster.predict(X)[0] for the one-row frame X
LgbmPredict(lgbm_model, row) ==
    IF lgbm_model.model = NoModel THEN Raise("model_not_trained")
    ELSE [value |-> lgbm_model.model[row.product_id]]

\* --------------------------------------------------- ForecastingPipeline
\* ForecastingPipeline.__init__
ForecastingPipeline(features_df) ==
    [ features_df    |-> features_df,
      baseline_model |-> [ key \in {} |-> NaN ],
      lgbm_model     |-> [model |-> NoModel, feature_names |-> NoNames],
      metrics        |-> "{}" ]

\* ForecastingPipeline.train; booster is what lgb.train returns, raises
\* says whether it raised instead
PipelineTrain(pl, raises, booster) ==
    LET df == pl.features_df
        fitted == [pl EXCEPT !.baseline_model = BaselineFit(df),
                             !.lgbm_model.feature_names = prepare_features(df)]
    IN  IF raises THEN fitted
        ELSE [fitted EXCEPT !.lgbm_model.model = booster,
                            !.metrics = "metrics"]

\* a forecast that does not clip
Max0_NoClip(x) == x

\* max(0, pred)
Max0(x) == IF x < 0 THEN 0 ELSE x

\* the last row of the pair (of the matrix, when it is not keyed): 0 or 1 row
latest_data(df, product_id, store_id) ==
    IF Keyed(df) THEN TailN(SelectSeq2(df.rows, product_id, store_id), 1)
    ELSE TailN(df.rows, 1)

\* ForecastingPipeline.forecast
forecast(pl, product_id, store_id, horizon, use_baseline) ==
    LET df     == pl.features_df
        latest == latest_data(df, product_id, store_id)
        method == IF use_baseline THEN "baseline"
                  ELSE IF Len(latest) = 0 THEN "baseline_fallback"
                  ELSE "lightgbm"
        pred   == IF method = "lightgbm"
                  THEN LgbmPredict(pl.lgbm_model, latest[1]) ELSE [value |-> 0]
    IN  IF IsRaise(pred) THEN pred
        \* pd.date_range from the NaT that max() of an empty date column is
        ELSE IF "date" \in df.columns /\ df.rows = << >>
        THEN Raise("start_is_NaT")
        ELSE LET predictions ==
                     IF method = "lightgbm"
                     THEN [ i \in 1..horizon |-> Rat(Max0(pred.value), 1) ]
                     ELSE BaselinePredict(pl.baseline_model, product_id,
                                          store_id, horizon)
             IN  [ product_id  |-> product_id,
                   store_id    |-> store_id,
                   method      |-> method,
                   horizon     |-> horizon,
                   predictions |-> predictions,
                   dates       |-> IF "date" \in df.columns
                                   THEN "after_last_date" ELSE "from_now",
                   total_forecast     |-> RatSum(predictions),
                   avg_daily_forecast |-> RatDiv(RatSum(predictions), horizon) ]

\* a batch that stops at the first pair whose forecast raises
RECURSIVE batch_forecast_StopsAtError(_, _, _)
batch_forecast_StopsAtError(pl, pairs, horizon) ==
    IF pairs = << >> THEN << >>
    ELSE LET result == forecast(pl, pairs[1][1], pairs[1][2], horizon, FALSE)
         IN  IF IsRaise(result) THEN << >>
             ELSE << result >>
                  \o batch_forecast_StopsAtError(pl, Tail(pairs), horizon)

\* ForecastingPipeline.batch_forecast
RECURSIVE batch_forecast(_, _, _)
batch_forecast(pl, pairs, horizon) ==
    IF pairs = << >> THEN << >>
    ELSE LET product_id == pairs[1][1]
             store_id   == pairs[1][2]
             result     == forecast(pl, product_id, store_id, horizon, FALSE)
         IN  << IF IsRaise(result)
                THEN [product_id |-> product_id, store_id |-> store_id,
                      error |-> result.raised]
                ELSE result >>
             \o batch_forecast(pl, Tail(pairs), horizon)

\* ForecastingPipeline.save: lgbm_model.pkl and metadata.pkl
PipelineSave(pl) ==
    [ lgbm_model |-> [model |-> pl.lgbm_model.model,
                      feature_names |-> pl.lgbm_model.feature_names],
      metadata   |-> [metrics |-> pl.metrics,
                      feature_names |-> pl.lgbm_model.feature_names] ]

\* ForecastingPipeline.load into the instance pl
PipelineLoad(pl, files) ==
    [pl EXCEPT !.lgbm_model.model = files.lgbm_model.model,
               !.lgbm_model.feature_names = files.lgbm_model.feature_names,
               !.metrics = files.metadata.metrics]

\* ------------------------------------------- the pipeline taken alone
NoPipeline == [none |-> TRUE]
NoResult   == [none |-> TRUE]
NoArgs     == [fn |-> "none"]

Horizons == 1..MaxHorizon
PairSeqs == UNION { [1..k -> Pairs] : k \in 0..MaxPairs }

\* a pipeline is built on a feature matrix: not trained yet, nothing called
InitFc ==
    /\ InitApp
    /\ reco = NoCall
    /\ fcst \in { [ phase    |-> "fresh",
                    pipeline |-> ForecastingPipeline(df),
                    loaded   |-> NoPipeline,
                    call     |-> NoArgs,
                    result   |-> NoResult ] : df \in FeatureMatrices }

\* pipeline.train(): it returns the metrics or raises out of lgb.train
FcTrain ==
    /\ fcst.phase = "fresh" /\ fcst.call = NoArgs
    /\ \E raises \in LgbTrainRaises(fcst.pipeline.features_df),
          booster \in Boosters :
         fcst' = [fcst EXCEPT
                    !.phase = IF raises THEN "failed" ELSE "trained",
                    !.pipeline = PipelineTrain(@, raises,
                                    IF raises THEN NoModel ELSE booster)]
    /\ UNCHANGED << appvars, reco >>

\* pipeline.forecast(product_id, store_id, horizon, use_baseline)
FcForecast(product_id, store_id, horizon, use_baseline) ==
    /\ fcst.phase # "none" /\ fcst.call = NoArgs /\ fcst.loaded = NoPipeline
    /\ fcst' = [fcst EXCEPT
                  !.call = [fn |-> "forecast", product_id |-> product_id,
                            store_id |-> store_id, horizon |-> horizon,
                            use_baseline |-> use_baseline],
                  !.result = forecast(fcst.pipeline, product_id, store_id,
                                      horizon, use_baseline)]
    /\ UNCHANGED << appvars, reco >>

\* pipeline.batch_forecast(pairs, horizon)
FcBatchForecast(pairs, horizon) ==
    /\ fcst.phase # "none" /\ fcst.call = NoArgs /\ fcst.loaded = NoPipeline
    /\ fcst' = [fcst EXCEPT
                  !.call = [fn |-> "batch_forecast", pairs |-> pairs,
                            horizon |-> horizon],
                  !.result = batch_forecast(fcst.pipeline, pairs, horizon)]
    /\ UNCHANGED << appvars, reco >>

\* pipeline.save(model_dir), then ForecastingPipeline(df).load(model_dir)
\* on a fresh instance, built on the same feature matrix or on an empty one
FcSaveLoad(same) ==
    /\ fcst.phase = "trained" /\ fcst.call = NoArgs /\ fcst.loaded = NoPipeline
    /\ fcst' = [fcst EXCEPT
                  !.loaded = PipelineLoad(
                      ForecastingPipeline(IF same THEN fcst.pipeline.features_df
                                          ELSE EmptyMatrix),
                      PipelineSave(fcst.pipeline))]
    /\ UNCHANGED << appvars, reco >>

NextFc ==
    \/ FcTrain
    \/ \E pair \in Pairs, horizon \in Horizons, use_baseline \in BOOLEAN :
          FcForecast(pair[1], pair[2], horizon, use_baseline)
    \/ \E pairs \in PairSeqs, horizon \in Horizons :
          FcBatchForecast(pairs, horizon)
    \/ \E same \in BOOLEAN : FcSaveLoad(same)

SpecFc == InitFc /\ [][NextFc]_vars

\* ============================================================ recommender
\* models/recommendation.py taken alone: CollaborativeFilter,
\* ContentBasedRecommender and HybridRecommender on small purchase data.
\* Scores are exact: a similarity is a number of 1/SimOne, a score of the
\* collaborative and the content model a number of 1/SimOne, and a score
\* of the hybrid recommender a number of 1/(10 * SimOne).

\* --------------------------------------------------------- purchase data
MaxCount == 1
MaxTopK  == 3

UserOrder == << "u1", "u2" >>              \* customers, in index order
ItemOrder == << "i1", "i2", "i3" >>        \* products, in index order
Users == { UserOrder[k] : k \in 1..Len(UserOrder) }
Items == { ItemOrder[k] : k \in 1..Len(ItemOrder) }
TopKs == 1..MaxTopK

\* the customers asked about: "u3" has no transaction in any version
Customers == Users \cup {"u3"}

\* every customer buys at one store
HomeStore(customer_id) == IF customer_id = "u1" THEN "s1" ELSE "s2"
RecStores == { HomeStore(u) : u \in Users }

\* the transaction items of a version: purchase counts per customer and product
Purchases == [ Users \X Items -> 0..MaxCount ]

Cells == [ k \in 1..(Len(UserOrder) * Len(ItemOrder)) |->
             << UserOrder[((k - 1) \div Len(ItemOrder)) + 1],
                ItemOrder[((k - 1) % Len(ItemOrder)) + 1] >> ]

\* RecommendationFeatureEngine.generate_user_item_matrix: one row per
\* (customer_id, product_id) with purchases, sorted by the group keys; the
\* store of the transaction is not among the columns
generate_user_item_matrix(purchases) ==
    LET Bought(c) == purchases[c] > 0
        cells == SelectSeq(Cells, Bought)
    IN  [ columns |-> {"customer_id", "product_id", "quantity", "purchase_count"},
          rows |-> [ k \in 1..Len(cells) |->
                       [ customer_id |-> cells[k][1],
                         product_id |-> cells[k][2],
                         store_id |-> HomeStore(cells[k][1]),
                         quantity |-> purchases[cells[k]],
                         purchase_count |-> purchases[cells[k]] ] ] ]

\* the interaction frames fit is called with: the orchestrator's, and the
\* same rows with a store_id column or without one of the key columns
FrameVariants == {"orchestrator", "with_store", "no_product_id", "no_customer_id"}

InteractionFrame(purchases, variant) ==
    LET df == generate_user_item_matrix(purchases)
    IN  [ df EXCEPT !.columns =
            CASE variant = "with_store"     -> @ \cup {"store_id"}
              [] variant = "no_product_id"  -> @ \ {"product_id"}
              [] variant = "no_customer_id" -> @ \ {"customer_id"}
              [] OTHER                      -> @ ]

\* the product frames fit is called with: generate_product_features of a
\* product sheet with or without a category column, and None
ProductVariants == {"categories", "plain", "None"}

ProductFrame(variant) ==
    [ none |-> variant = "None",
      columns |-> IF variant = "None" THEN {}
                  ELSE {"product_id", "product_name"}
                       \cup (IF variant = "categories"
                             THEN {"category_level1"} ELSE {}),
      product_ids |-> IF variant = "None" THEN << >> ELSE ItemOrder ]

NoFrame == [ none |-> TRUE, columns |-> {}, rows |-> << >> ]

\* ------------------------------------------------------------- sequences
Returned(xs) == [ value |-> xs ]

Remove(xs, k) == [ j \in 1..(Len(xs) - 1) |-> IF j < k THEN xs[j] ELSE xs[j + 1] ]

Head_(xs, n) == SubSeq(xs, 1, IF n < Len(xs) THEN n ELSE Len(xs))

\* a sort of (item, score) pairs that keeps equal scores in their order
RECURSIVE SortDescFirstWins(_)
SortDescFirstWins(xs) ==
    IF xs = << >> THEN << >>
    ELSE LET k == CHOOSE k \in 1..Len(xs) :
                      /\ \A j \in 1..Len(xs) : xs[j][2] <= xs[k][2]
                      /\ \A j \in 1..(k - 1) : xs[j][2] < xs[k][2]
         IN  << xs[k] >> \o SortDescFirstWins(Remove(xs, k))

\* a descending sort that puts the later of two equal scores first
RECURSIVE SortDesc_LastWins(_)
SortDesc_LastWins(xs) ==
    IF xs = << >> THEN << >>
    ELSE LET k == CHOOSE k \in 1..Len(xs) :
                      /\ \A j \in 1..Len(xs) : xs[j][2] <= xs[k][2]
                      /\ \A j \in (k + 1)..Len(xs) : xs[j][2] < xs[k][2]
         IN  << xs[k] >> \o SortDesc_LastWins(Remove(xs, k))

\* sorted(items, key=score, reverse=True): stable
SortDesc(xs) == SortDescFirstWins(xs)

\* Series.nlargest(n): the n largest, descending, first occurrence first
nlargest(xs, n) == Head_(SortDescFirstWins(xs), n)

ItemsOf(xs) == [ k \in 1..Len(xs) |-> xs[k][1] ]
InSeq(x, xs) == \E k \in 1..Len(xs) : xs[k] = x

\* ---------------------------------------------------- CollaborativeFilter
SimOne == 4                      \* the similarity 1.0
CfSims == {0, 3}                 \* cosine similarity of two distinct customers

max_neighbours == 20

CollaborativeFilter ==
    [ fitted |-> "none",         \* user_item_matrix is None
      user_item_matrix |-> [ c \in {} |-> 0 ],
      user_ids |-> << >>, item_ids |-> << >>,
      similarity_matrix |-> [ c \in {} |-> 0 ] ]

ScoreOf(df, customer_id, product_id) ==
    IF \E k \in 1..Len(df.rows) : /\ df.rows[k].customer_id = customer_id
                                  /\ df.rows[k].product_id = product_id
    THEN LET k == CHOOSE k \in 1..Len(df.rows) :
                      /\ df.rows[k].customer_id = customer_id
                      /\ df.rows[k].product_id = product_id
         IN  df.rows[k].purchase_count
    ELSE 0

\* CollaborativeFilter.fit; sim is the similarity sklearn computes for two
\* distinct customers, cosine_raises that it raises instead
CfFit(cf, df, sim, cosine_raises) ==
    IF ~({"customer_id", "product_id"} \subseteq df.columns)
    THEN cf
    ELSE LET HasUser(u) == \E k \in 1..Len(df.rows) : df.rows[k].customer_id = u
             HasItem(i) == \E k \in 1..Len(df.rows) : df.rows[k].product_id = i
             user_ids == SelectSeq(UserOrder, HasUser)
             item_ids == SelectSeq(ItemOrder, HasItem)
             users == { user_ids[k] : k \in 1..Len(user_ids) }
             items == { item_ids[k] : k \in 1..Len(item_ids) }
             matrix == [ c \in users \X items |-> ScoreOf(df, c[1], c[2]) ]
         IN  [ fitted |-> IF cosine_raises THEN "matrix" ELSE "full",
               user_item_matrix |-> matrix,
               user_ids |-> user_ids, item_ids |-> item_ids,
               similarity_matrix |->
                   IF cosine_raises THEN [ c \in {} |-> 0 ]
                   ELSE [ c \in users \X users |->
                            IF c[1] = c[2] THEN SimOne ELSE sim ] ]

\* a popularity list that is not cut at top_k
_get_popular_items_Uncut(cf, top_k) ==
    LET Sum(i) == IntSum([ k \in 1..Len(cf.user_ids) |->
                             cf.user_item_matrix[<< cf.user_ids[k], i >>] ])
    IN  SortDescFirstWins([ k \in 1..Len(cf.item_ids) |->
                     << cf.item_ids[k], Sum(cf.item_ids[k]) * SimOne >> ])

\* CollaborativeFilter._get_popular_items
_get_popular_items(cf, top_k) ==
    LET Sum(i) == IntSum([ k \in 1..Len(cf.user_ids) |->
                             cf.user_item_matrix[<< cf.user_ids[k], i >>] ])
    IN  nlargest([ k \in 1..Len(cf.item_ids) |->
                     << cf.item_ids[k], Sum(cf.item_ids[k]) * SimOne >> ], top_k)

\* CollaborativeFilter.recommend(user_id, top_k)
CfRecommend(cf, user_id, top_k) ==
    IF cf.fitted = "none" THEN Raise("ValueError")
    ELSE IF ~InSeq(user_id, cf.user_ids)
    THEN Returned(_get_popular_items(cf, top_k))
    ELSE IF cf.fitted = "matrix" THEN Raise("TypeError")
    ELSE LET NotSelf(v) == v # user_id
             others == SelectSeq(cf.user_ids, NotSelf)
             ranked == SortDescFirstWins(
                           [ k \in 1..Len(others) |->
                               << others[k],
                                  cf.similarity_matrix[<< user_id, others[k] >>] >> ])
             similar_users == Head_(ranked, max_neighbours)
             Weighted(i) == IntSum([ k \in 1..Len(similar_users) |->
                                cf.user_item_matrix[<< similar_users[k][1], i >>]
                                  * similar_users[k][2] ])
             NotPurchased(i) == cf.user_item_matrix[<< user_id, i >>] = 0
             candidates == SelectSeq(cf.item_ids, NotPurchased)
         IN  Returned(nlargest([ k \in 1..Len(candidates) |->
                                   << candidates[k], Weighted(candidates[k]) >> ],
                               top_k))

\* ------------------------------------------------ ContentBasedRecommender
\* the similarities sklearn computes for the pairs (i1,i2), (i1,i3), (i2,i3)
\* of a catalogue without two products of equal features: no similarity
\* repeats in a row, and argsort has one order
ContentSims == { << 3, 1, 2 >>, << 1, 2, 3 >> }

ContentSimilarity(t) ==
    [ c \in Items \X Items |->
        IF c[1] = c[2] THEN SimOne
        ELSE IF c \in {<< "i1", "i2" >>, << "i2", "i1" >>} THEN t[1]
        ELSE IF c \in {<< "i1", "i3" >>, << "i3", "i1" >>} THEN t[2]
        ELSE t[3] ]

ContentBasedRecommender ==
    [ fitted |-> FALSE,          \* similarity_matrix is None
      similarity_matrix |-> [ c \in {} |-> 0 ],
      product_ids |-> << >> ]

\* ContentBasedRecommender.fit; raises on None, and computes a similarity
\* only when the frame has a category column
ContentFit(content, product_df, t) ==
    IF product_df.none THEN content
    ELSE IF "category_level1" \notin product_df.columns THEN content
    ELSE [ fitted |-> TRUE,
           similarity_matrix |-> ContentSimilarity(t),
           product_ids |-> product_df.product_ids ]

\* similarities = self.similarity_matrix[product_idx]
Similarities(content, product_id) ==
    [ k \in 1..Len(content.product_ids) |->
        content.similarity_matrix[<< product_id, content.product_ids[k] >>] ]

Orders == { p \in [1..Len(ItemOrder) -> 1..Len(ItemOrder)] :
              \A i, j \in 1..Len(ItemOrder) : i # j => p[i] # p[j] }

\* np.argsort(similarities): the indices in ascending order of similarity.
\* The default sort is not stable: equal similarities come in an order that
\* depends on the numpy build, so every ascending order is possible
argsort(content, product_id) ==
    IF content.fitted /\ InSeq(product_id, content.product_ids)
    THEN { p \in Orders :
             \A i \in 1..(Len(p) - 1) :
                 Similarities(content, product_id)[p[i]]
                    <= Similarities(content, product_id)[p[i + 1]] }
    ELSE { [ k \in 1..Len(ItemOrder) |-> k ] }

\* ContentBasedRecommender.recommend(product_id, top_k), order being what
\* np.argsort returned: [::-1][1:top_k+1] drops the first index of the
\* descending order, whichever product it is
ContentRecommend(content, product_id, top_k, order) ==
    IF ~content.fitted THEN Raise("ValueError")
    ELSE IF ~InSeq(product_id, content.product_ids) THEN Returned(<< >>)
    ELSE LET similarities == Similarities(content, product_id)
             n            == Len(order)
             reversed     == [ k \in 1..n |-> order[n + 1 - k] ]
             similar_idx  == SubSeq(reversed, 2,
                                    IF top_k + 1 < n THEN top_k + 1 ELSE n)
         IN  Returned([ k \in 1..Len(similar_idx) |->
                          << content.product_ids[similar_idx[k]],
                             similarities[similar_idx[k]] >> ])

\* ------------------------------------------------------ HybridRecommender
cf_weight      == 6              \* 0.6
content_weight == 4              \* 0.4
pad_score      == 5              \* 0.5
popular_limit  == 50
max_history    == 5

HybridRecommender ==
    [ cf_model |-> CollaborativeFilter,
      content_model |-> ContentBasedRecommender,
      popular_items |-> << >>,
      interaction_df |-> NoFrame,
      product_df |-> ProductFrame("None") ]

\* groupby('product_id')[score_col].sum()
GroupSums(rows) ==
    LET HasItem(i) == \E k \in 1..Len(rows) : rows[k].product_id = i
        items == SelectSeq(ItemOrder, HasItem)
        Sum(i) == IntSum([ k \in 1..Len(rows) |->
                     IF rows[k].product_id = i THEN rows[k].purchase_count ELSE 0 ])
    IN  [ k \in 1..Len(items) |-> << items[k], Sum(items[k]) >> ]

\* HybridRecommender.fit
HybridFit(h, interaction_df, product_df, sim, cosine_raises, t) ==
    [ cf_model |-> CfFit(h.cf_model, interaction_df, sim, cosine_raises),
      content_model |-> ContentFit(h.content_model, product_df, t),
      popular_items |->
          IF "product_id" \in interaction_df.columns
          THEN ItemsOf(nlargest(GroupSums(interaction_df.rows), popular_limit))
          ELSE h.popular_items,
      interaction_df |-> [ none |-> FALSE, columns |-> interaction_df.columns,
                           rows |-> interaction_df.rows ],
      product_df |-> product_df ]

\* recommendations[product_id] += score, in insertion order
Accumulate(recs, product_id, score) ==
    IF \E k \in 1..Len(recs) : recs[k][1] = product_id
    THEN [ k \in 1..Len(recs) |->
             IF recs[k][1] = product_id
             THEN << product_id, recs[k][2] + score >> ELSE recs[k] ]
    ELSE Append(recs, << product_id, score >>)

RECURSIVE AccumulateAll(_, _, _)
AccumulateAll(recs, xs, weight) ==
    IF xs = << >> THEN recs
    ELSE AccumulateAll(Accumulate(recs, xs[1][1], xs[1][2] * weight),
                       Tail(xs), weight)

\* user_history['product_id'].unique()[:5]
RECURSIVE Unique(_)
Unique(xs) ==
    IF xs = << >> THEN << >>
    ELSE LET rest == Unique(SubSeq(xs, 1, Len(xs) - 1))
         IN  IF InSeq(xs[Len(xs)], rest) THEN rest ELSE Append(rest, xs[Len(xs)])

\* the collaborative part of recommend
CfPart(h, customer_id, top_k) ==
    LET cf_recs == CfRecommend(h.cf_model, customer_id, top_k * 2)
    IN  IF IsRaise(cf_recs) THEN << >>
        ELSE AccumulateAll(<< >>, cf_recs.value, cf_weight)

UserHistory(h, customer_id) ==
    LET Mine(row) == row.customer_id = customer_id
    IN  IF ~h.interaction_df.none /\ "customer_id" \in h.interaction_df.columns
        THEN SelectSeq(h.interaction_df.rows, Mine)
        ELSE << >>

RECURSIVE ContentPart(_, _, _, _)
ContentPart(h, recs, purchased_products, top_k) ==
    IF purchased_products = << >> THEN recs
    ELSE LET content_recs ==
                 ContentRecommend(h.content_model, purchased_products[1], top_k,
                     CHOOSE order \in argsort(h.content_model,
                                              purchased_products[1]) : TRUE)
         IN  ContentPart(h,
                 IF IsRaise(content_recs) THEN recs
                 ELSE AccumulateAll(recs, content_recs.value, content_weight),
                 Tail(purchased_products), top_k)

RECURSIVE Pad(_, _)
Pad(recs, popular) ==
    IF popular = << >> THEN recs
    ELSE Pad(IF \E k \in 1..Len(recs) : recs[k][1] = popular[1] THEN recs
             ELSE Append(recs, << popular[1], pad_score * SimOne >>),
             Tail(popular))

\* has the product a row in product_df that carries a product_name
ProductInfo(h, product_id) ==
    /\ ~h.product_df.none
    /\ {"product_id", "product_name"} \subseteq h.product_df.columns
    /\ InSeq(product_id, h.product_df.product_ids)

\* the recommendations dict of recommend before it is sorted, or the raise
Accumulated(h, customer_id, top_k) ==
    LET user_history == UserHistory(h, customer_id)
    IN  IF user_history # << >> /\ "product_id" \notin h.interaction_df.columns
        THEN Raise("KeyError")
        ELSE LET purchased_products ==
                     Head_(Unique([ k \in 1..Len(user_history) |->
                                      user_history[k].product_id ]), max_history)
                 recommendations ==
                     ContentPart(h, CfPart(h, customer_id, top_k),
                                 purchased_products, top_k)
             IN  Returned(IF Len(recommendations) < top_k
                          THEN Pad(recommendations, Head_(h.popular_items, top_k))
                          ELSE recommendations)

\* HybridRecommender.recommend(customer_id, top_k)
HybridRecommend(h, customer_id, top_k) ==
    LET recommendations == Accumulated(h, customer_id, top_k)
    IN  IF IsRaise(recommendations) THEN recommendations
        ELSE LET sorted_recs == Head_(SortDesc(recommendations.value), top_k)
             IN  Returned([ k \in 1..Len(sorted_recs) |->
                              [ product_id |-> sorted_recs[k][1],
                                score |-> sorted_recs[k][2],
                                product_name |-> ProductInfo(h, sorted_recs[k][1]) ] ])

\* HybridRecommender.recommend_popular(top_k, store_id); "" is no store_id
recommend_popular(h, top_k, store_id) ==
    IF store_id # "" /\ h.interaction_df.none THEN Raise("AttributeError")
    ELSE LET AtStore(row) == row.store_id = store_id
             store_data == IF store_id # "" /\ "store_id" \in h.interaction_df.columns
                           THEN SelectSeq(h.interaction_df.rows, AtStore)
                           ELSE << >>
             popular_products ==
                 IF store_data # << >>
                 THEN ItemsOf(nlargest(GroupSums(store_data), top_k))
                 ELSE Head_(h.popular_items, top_k)
         IN  Returned([ k \in 1..Len(popular_products) |->
                          [ product_id |-> popular_products[k],
                            score |-> 10 * SimOne,
                            product_name |-> ProductInfo(h, popular_products[k]) ] ])

\* HybridRecommender.save: the pickled dict
HybridSave(h) ==
    [ cf_model |-> h.cf_model, content_model |-> h.content_model,
      popular_items |-> h.popular_items ]

\* HybridRecommender.load into the instance h
HybridLoad(h, file) ==
    [ h EXCEPT !.cf_model = file.cf_model,
               !.content_model = file.content_model,
               !.popular_items = file.popular_items ]

\* ----------------------------------------- the recommender taken alone
InitRec ==
    /\ InitApp
    /\ fcst = NoCall
    /\ reco \in { [ phase |-> "fresh", purchases |-> purchases,
                    variant |-> "none", hybrid |-> HybridRecommender,
                    call |-> NoArgs, result |-> NoResult ] :
                  purchases \in Purchases }

\* recommender = HybridRecommender(); recommender.fit(interaction_df, product_df)
RecFit(variant, product_variant, sim, cosine_raises, t) ==
    /\ reco.phase = "fresh"
    /\ reco' = [ reco EXCEPT !.phase = "fitted", !.variant = variant,
                   !.hybrid = HybridFit(@, InteractionFrame(reco.purchases, variant),
                                        ProductFrame(product_variant),
                                        sim, cosine_raises, t) ]
    /\ UNCHANGED << appvars, fcst >>

\* recommender.save(d); HybridRecommender().load(d)
RecSaveLoad ==
    /\ reco.phase = "fitted"
    /\ reco.call = NoArgs
    /\ reco' = [ reco EXCEPT !.phase = "loaded",
                   !.hybrid = HybridLoad(HybridRecommender, HybridSave(@)) ]
    /\ UNCHANGED << appvars, fcst >>

RecRecommend(customer_id, top_k) ==
    /\ reco.phase \in {"fitted", "loaded"}
    /\ reco.call = NoArgs
    /\ reco' = [ reco EXCEPT
                   !.call = [ fn |-> "recommend", customer_id |-> customer_id,
                              top_k |-> top_k ],
                   !.result = HybridRecommend(reco.hybrid, customer_id, top_k) ]
    /\ UNCHANGED << appvars, fcst >>

\* recommender.cf_model.recommend(user_id, top_k)
RecCfRecommend(user_id, top_k) ==
    /\ reco.phase \in {"fitted", "loaded"}
    /\ reco.call = NoArgs
    /\ reco' = [ reco EXCEPT
                   !.call = [ fn |-> "cf_recommend", user_id |-> user_id,
                              top_k |-> top_k ],
                   !.result = CfRecommend(reco.hybrid.cf_model, user_id, top_k) ]
    /\ UNCHANGED << appvars, fcst >>

RecPopular(top_k, store_id) ==
    /\ reco.phase \in {"fitted", "loaded"}
    /\ reco.call = NoArgs
    /\ reco' = [ reco EXCEPT
                   !.call = [ fn |-> "recommend_popular", top_k |-> top_k,
                              store_id |-> store_id ],
                   !.result = recommend_popular(reco.hybrid, top_k, store_id) ]
    /\ UNCHANGED << appvars, fcst >>

NextRec ==
    \/ \E variant \in FrameVariants, product_variant \in ProductVariants,
          sim \in CfSims, cosine_raises \in BOOLEAN, t \in ContentSims :
            RecFit(variant, product_variant, sim, cosine_raises, t)
    \/ RecSaveLoad
    \/ \E customer_id \in Customers, top_k \in TopKs : RecRecommend(customer_id, top_k)
    \/ \E user_id \in Customers, top_k \in TopKs : RecCfRecommend(user_id, top_k)
    \/ \E top_k \in TopKs, store_id \in RecStores \cup {""} :
            RecPopular(top_k, store_id)

SpecRec == InitRec /\ [][NextRec]_vars

\* --------------------------------------------------------------- C12
Called(fn) == fcst.phase # "none" /\ fcst.call.fn = fn

\* C12: batch_forecast(pairs, horizon) returns one result per pair, in
\* the order of the pairs; the result of a pair whose forecast raises is
\* {product_id, store_id, error}, and the result of every other pair is
\* what forecast returns for that pair alone.
C12_BatchOneResultPerPair ==
    Called("batch_forecast") =>
        LET pairs == fcst.call.pairs
            alone(i) == forecast(fcst.pipeline, pairs[i][1], pairs[i][2],
                                 fcst.call.horizon, FALSE)
        IN  /\ Len(fcst.result) = Len(pairs)
            /\ \A i \in 1..Len(pairs) :
                 fcst.result[i] =
                     IF IsRaise(alone(i))
                     THEN [product_id |-> pairs[i][1], store_id |-> pairs[i][2],
                           error |-> alone(i).raised]
                     ELSE alone(i)

\* a batch whose first pair failed and whose second pair has a forecast
C12_Witness ==
    /\ Called("batch_forecast")
    /\ Len(fcst.result) = 2
    /\ "error" \in DOMAIN fcst.result[1]
    /\ "method" \in DOMAIN fcst.result[2]

\* --------------------------------------------------------------- C13
\* C13 (as claimed): the instance loaded from a saved trained pipeline has
\* the same feature_names and returns the same forecast as the original
\* for every input.
C13_RoundTripSameForecasts ==
    (fcst.phase = "trained" /\ fcst.loaded # NoPipeline) =>
        /\ fcst.loaded.lgbm_model.feature_names
             = fcst.pipeline.lgbm_model.feature_names
        /\ \A pair \in Pairs, horizon \in Horizons, use_baseline \in BOOLEAN :
             forecast(fcst.loaded, pair[1], pair[2], horizon, use_baseline)
               = forecast(fcst.pipeline, pair[1], pair[2], horizon, use_baseline)

\* --------------------------------------------------------------- C14
RecCalled(fn) == reco.phase # "none" /\ reco.call.fn = fn

\* the call returned a list
RecReturned(fn) == RecCalled(fn) /\ ~IsRaise(reco.result)

Position(xs, product_id) == CHOOSE k \in 1..Len(xs) : xs[k][1] = product_id

Min(a, b) == IF a < b THEN a ELSE b

\* C14: recommend(customer_id, top_k) returns exactly min(top_k, number of
\* distinct candidates accumulated) items, each a candidate with its
\* accumulated score, in non-increasing score order, items of equal score
\* in the order in which they were first accumulated.
C14_TopKSortedStable ==
    RecReturned("recommend") =>
        LET acc == Accumulated(reco.hybrid, reco.call.customer_id,
                               reco.call.top_k).value
            res == reco.result.value
        IN  /\ Len(res) = Min(reco.call.top_k, Len(acc))
            /\ \A i \in 1..Len(res) :
                 \E k \in 1..Len(acc) : acc[k] = << res[i].product_id, res[i].score >>
            /\ \A i, j \in 1..Len(res) :
                 i < j =>
                   \/ res[i].score > res[j].score
                   \/ /\ res[i].score = res[j].score
                      /\ Position(acc, res[i].product_id)
                           < Position(acc, res[j].product_id)
            /\ \A k \in 1..Len(acc) :
                 (\A i \in 1..Len(res) : res[i].product_id # acc[k][1]) =>
                   \A i \in 1..Len(res) :
                      \/ res[i].score > acc[k][2]
                      \/ /\ res[i].score = acc[k][2]
                         /\ Position(acc, res[i].product_id) < k

\* a result cut at top_k that holds two items of equal score, the second
\* of which was accumulated before a candidate that was cut
C14_Witness ==
    /\ RecReturned("recommend")
    /\ reco.call.top_k = 2
    /\ Len(reco.result.value) = 2
    /\ reco.result.value[1].score = reco.result.value[2].score
    /\ LET acc == Accumulated(reco.hybrid, reco.call.customer_id, 2).value
       IN  /\ Len(acc) = 3
           /\ \E k \in 1..3 : /\ acc[k][2] = reco.result.value[1].score
                              /\ acc[k][1] # reco.result.value[1].product_id
                              /\ acc[k][1] # reco.result.value[2].product_id

\* --------------------------------------------------------------- C15
\* the customer has no row in the training interactions
ColdStart(customer_id) ==
    customer_id \in Users => \A i \in Items : reco.purchases[<< customer_id, i >>] = 0

\* C15 (as claimed): for a customer absent from the training interactions
\* recommend returns min(top_k, size of the popularity list) items, each
\* of the popularity list and each with the score 0.5.
C15_ColdStartScoresHalf ==
    (/\ RecCalled("recommend")
     /\ reco.phase = "fitted" /\ reco.variant = "orchestrator"
     /\ ColdStart(reco.call.customer_id)) =>
        /\ ~IsRaise(reco.result)
        /\ Len(reco.result.value)
             = Min(reco.call.top_k, Len(reco.hybrid.popular_items))
        /\ \A i \in 1..Len(reco.result.value) :
             /\ InSeq(reco.result.value[i].product_id, reco.hybrid.popular_items)
             /\ reco.result.value[i].score = pad_score * SimOne

\* --------------------------------------------------------------- C16
\* the summed score of a product over all customers, as a collaborative score
Popularity(product_id) ==
    SimOne * IntSum([ k \in 1..Len(UserOrder) |->
                        reco.purchases[<< UserOrder[k], product_id >>] ])

Bought == { i \in Items : \E u \in Users : reco.purchases[<< u, i >>] > 0 }

\* C16: on a fitted CollaborativeFilter, recommend(user_id, top_k) for a
\* user without training interactions does not raise and returns the
\* min(top_k, number of items) items of highest summed score with these
\* sums, most popular first.
C16_UnknownUserGetsPopular ==
    (/\ RecCalled("cf_recommend")
     /\ reco.hybrid.cf_model.fitted # "none"
     /\ ColdStart(reco.call.user_id)) =>
        /\ ~IsRaise(reco.result)
        /\ LET res == reco.result.value
               listed == { res[k][1] : k \in 1..Len(res) }
           IN  /\ Len(res) = Min(reco.call.top_k, Cardinality(Bought))
               /\ Cardinality(listed) = Len(res)
               /\ listed \subseteq Bought
               /\ \A k \in 1..Len(res) : res[k][2] = Popularity(res[k][1])
               /\ \A j, k \in 1..Len(res) : j < k => res[j][2] >= res[k][2]
               /\ \A i \in Bought \ listed :
                    \A k \in 1..Len(res) : res[k][2] >= Popularity(i)

\* an unknown user gets a popularity list cut at top_k whose first entry
\* is more popular than its last
C16_Witness ==
    /\ RecReturned("cf_recommend")
    /\ reco.hybrid.cf_model.fitted = "full"
    /\ ColdStart(reco.call.user_id)
    /\ reco.call.top_k = 2
    /\ Len(reco.result.value) = 2
    /\ Cardinality(Bought) = 3
    /\ reco.result.value[1][2] > reco.result.value[2][2]

\* --------------------------------------------------------------- C17
\* C17 (as claimed): after a fit in which the collaborative or the
\* content sub-model failed to train, recommend returns without raising.
C17_RecommendAfterFailedSubModel ==
    (/\ RecCalled("recommend")
     /\ reco.phase = "fitted"
     /\ \/ reco.hybrid.cf_model.fitted # "full"
        \/ ~reco.hybrid.content_model.fitted) =>
        ~IsRaise(reco.result)

\* --------------------------------------------------------------- C18
\* the rows of the version's purchases at a store
StorePurchases(store_id) ==
    LET AtStore(row) == row.store_id = store_id
    IN  SelectSeq(generate_user_item_matrix(reco.purchases).rows, AtStore)

\* C18 (as claimed): on a recommender trained by the orchestrator,
\* recommend_popular(top_k, store_id) with a store at which purchases
\* exist returns the top_k products by the score summed over that store.
C18_StoreScopedRanking ==
    (/\ RecCalled("recommend_popular")
     /\ reco.phase = "fitted" /\ reco.variant = "orchestrator"
     /\ reco.call.store_id # ""
     /\ StorePurchases(reco.call.store_id) # << >>) =>
        /\ ~IsRaise(reco.result)
        /\ [ k \in 1..Len(reco.result.value) |-> reco.result.value[k].product_id ]
             = ItemsOf(nlargest(GroupSums(StorePurchases(reco.call.store_id)),
                                reco.call.top_k))

\* --------------------------------------------------------------- C19
\* a forecast call has returned a result
Forecasted == Called("forecast") /\ ~IsRaise(fcst.result)

\* the matrix has a row for the pair (for the product, when it has no
\* store_id column)
HasRow(df, product_id, store_id) ==
    \E k \in 1..Len(df.rows) :
        /\ df.rows[k].product_id = product_id
        /\ ("store_id" \in df.columns => df.rows[k].store_id = store_id)

\* the mean of the last `window` sales of the pair
TrailingMean(df, product_id, store_id) ==
    Mean(TailN(SalesOf(SelectSeq2(df.rows, product_id, store_id)), window))

AllEqualTo(predictions, horizon, x) ==
    /\ Len(predictions) = horizon
    /\ \A i \in 1..horizon : predictions[i] = x

\* C19 (as claimed): method is baseline with use_baseline, else
\* baseline_fallback when the matrix has no row for the pair and lightgbm
\* when it has one; with baseline and baseline_fallback every prediction
\* is the trailing-window mean of the pair.
C19_MethodAndTrailingMean ==
    (Forecasted /\ fcst.phase = "trained") =>
        LET c  == fcst.call
            df == fcst.pipeline.features_df
        IN  /\ fcst.result.method =
                 IF c.use_baseline THEN "baseline"
                 ELSE IF HasRow(df, c.product_id, c.store_id) THEN "lightgbm"
                 ELSE "baseline_fallback"
            /\ fcst.result.method \in {"baseline", "baseline_fallback"} =>
                 /\ HasRow(df, c.product_id, c.store_id)
                 /\ AllEqualTo(fcst.result.predictions, c.horizon,
                               TrailingMean(df, c.product_id, c.store_id))

\* C19 (amended): on a trained pipeline method is baseline with
\* use_baseline; else lightgbm when the matrix has a row for the pair, or,
\* without a product_id or store_id column, any row, and baseline_fallback
\* otherwise; with baseline and baseline_fallback every prediction is the
\* trailing-window mean cached for the pair, the one cached over all rows
\* when the matrix lacks a key column, and 0 when none is cached.
C19_MethodAndCachedMean ==
    (Forecasted /\ fcst.phase = "trained") =>
        LET c  == fcst.call
            df == fcst.pipeline.features_df
            pairRows == SelectSeq2(df.rows, c.product_id, c.store_id)
        IN  /\ fcst.result.method =
                 IF c.use_baseline THEN "baseline"
                 ELSE IF Keyed(df) /\ pairRows # << >> THEN "lightgbm"
                 ELSE IF ~Keyed(df) /\ df.rows # << >> THEN "lightgbm"
                 ELSE "baseline_fallback"
            /\ fcst.result.method \in {"baseline", "baseline_fallback"} =>
                 AllEqualTo(fcst.result.predictions, c.horizon,
                    IF ~Keyed(df) THEN Mean(TailN(SalesOf(df.rows), window))
                    ELSE IF pairRows # << >>
                    THEN TrailingMean(df, c.product_id, c.store_id)
                    ELSE Rat(0, 1))

\* a baseline forecast of a pair with more rows than the window, whose
\* trailing mean is not the mean of all its rows
C19_Witness ==
    /\ Forecasted /\ fcst.phase = "trained"
    /\ fcst.result.method = "baseline"
    /\ Keyed(fcst.pipeline.features_df)
    /\ LET sales == SalesOf(SelectSeq2(fcst.pipeline.features_df.rows,
                                       fcst.call.product_id, fcst.call.store_id))
       IN  /\ Len(sales) > window
           /\ Mean(sales) # Mean(TailN(sales, window))
           /\ fcst.result.predictions[1] = Mean(TailN(sales, window))

\* --------------------------------------------------------------- C20
\* C20: a forecast with method lightgbm has exactly horizon predictions,
\* all equal and none negative, and total_forecast is their sum.
C20_BoostedForecastIsFlat ==
    (Forecasted /\ fcst.result.method = "lightgbm") =>
        LET predictions == fcst.result.predictions
        IN  /\ Len(predictions) = fcst.call.horizon
            /\ \A i, j \in 1..Len(predictions) : predictions[i] = predictions[j]
            /\ \A i \in 1..Len(predictions) :
                 predictions[i].num >= 0 /\ predictions[i].den > 0
            /\ fcst.result.total_forecast
                 = Rat(fcst.call.horizon * predictions[1].num, predictions[1].den)

\* a boosted forecast over several days whose negative prediction was
\* clipped to 0
C20_Witness ==
    /\ Forecasted /\ fcst.result.method = "lightgbm"
    /\ fcst.call.horizon > 1
    /\ fcst.pipeline.lgbm_model.model[fcst.call.product_id] < 0
    /\ fcst.result.predictions[1] = Rat(0, 1)

\* --------------------------------------------------------------- C25
\* C25 (as claimed): under any interleaving of two runs on the same
\* (version, model), a record whose status is completed has progress 100.
C25_CompletedMeansFull ==
    \A v \in DOMAIN data_versions, model \in Models :
        Record(v, model).status = "completed" => Record(v, model).progress = 100

\* --------------------------------------------------------------- C26
\* thread t takes a step of its run
Steps(t) == thr'[t].pc # thr[t].pc \/ thr'[t].i # thr[t].i

\* C26 (as claimed): in a run that is the only one on its (version, model)
\* every stage emits the event of its stage, in the order of the stage
\* table, with a progress above the previous one and the status of the
\* record, which is running; the end of a run that did not raise emits the
\* event of stage complete with status completed and progress 100.
C26_SoloRunEvents ==
    [][ \A t \in Threads :
          (thr[t].solo /\ Steps(t)) =>
            /\ thr[t].pc = "stage" =>
                 LET event == StageEvent(t)
                 IN  /\ event.stage = Stages(thr[t].model)[thr[t].i][2]
                     /\ event.progress = Stages(thr[t].model)[thr[t].i][1]
                     /\ event.progress > thr[t].prog
                     /\ event.stage # "complete"
                     /\ event.status = StatusIn(data_versions', thr[t].ver, thr[t].model)
                     /\ event.status = "running"
                     /\ thr'[t].pc = "stage" => thr'[t].i = thr[t].i + 1
            /\ thr[t].pc = "finalize" =>
                 LET event == FinalPayload(data_versions', thr[t].ver,
                                           thr[t].model, RunStatus(FALSE))
                 IN  /\ event.stage = "complete"
                     /\ event.status = "completed"
                     /\ event.progress = 100
                     /\ thr'[t].pc = "ret" ]_vars

\* --------------------------------------------------------------- C28
\* the tables of all versions
Tables(dv) == [ v \in DOMAIN dv |-> dv[v].parsed_data ]

C29_CompletedHasNoError ==
    \A v \in DOMAIN data_versions, model \in Models :
        Record(v, model).status = "completed" =>
            /\ Record(v, model).error = NoVal
            /\ Record(v, model).error_trace = NoVal

\* ========================================================= feature engine
\* core/feature_engine.py: FeatureEngine.generate_forecast_features on the
\* tables of one workbook, and ForecastingPipeline.train on the matrix it
\* returns.  A date is a day number; a numeric cell without a value is Null.
MaxDetail      == 3
MaxDate        == 3
MaxQty         == 2
MaxPrefectures == 2

Dates   == 1..MaxDate
Null    == -1
NoTable == [none |-> TRUE]           \* the sheet is not in parsed_data

Table(columns, rows) == [columns |-> columns, rows |-> rows]

\* ------------------------------------------------------------ the tables
\* items_df.merge(trans_df, on='transaction_id', how='left'): one row per
\* transaction item, with the date of its transaction and, when the
\* transaction sheet has the column, its store_id
DetailRows == [product_id : ProductIds, store_id : StoreIds,
               date : Dates, quantity : 1..MaxQty]
Details    == UNION { [1..n -> DetailRows] : n \in 0..MaxDetail }

\* the weather sheet: one row per date and prefecture of a store
Prefectures == << "Tokyo", "Osaka", "Aichi" >>

WeatherTable(n) ==
    Table({"date", "prefecture", "temperature_celsius", "weather_condition",
           "humidity_percent", "precipitation_mm"},
          [ k \in 1..(MaxDate * n) |->
              [date |-> ((k - 1) \div n) + 1,
               prefecture |-> Prefectures[((k - 1) % n) + 1],
               temperature_celsius |-> 20] ])

WeatherTables == {NoTable} \cup { WeatherTable(n) : n \in 1..MaxPrefectures }

\* the holiday sheet: one row per holiday
HolidayTables ==
    { NoTable,
      Table({"date", "holiday_name", "holiday_type", "is_long_weekend"},
            << [date |-> 2, holiday_name |-> "h"] >>) }

PromotionTables ==
    { NoTable,
      Table({"promotion_id", "start_date", "end_date"},
            << [start_date |-> 2, end_date |-> 3] >>) }

InventoryTables ==
    { NoTable,
      Table({"product_id", "store_id", "stock_quantity", "reorder_point"},
            << [product_id |-> "p1", store_id |-> "s1", stock_quantity |-> 4],
               [product_id |-> "p1", store_id |-> "s1", stock_quantity |-> 5] >>) }

\* parsed_data: the joined transaction rows and the optional sheets
ParsedData ==
    [ detail     : { Table(cols, rows) :
                       rows \in Details,
                       cols \in { {"transaction_id", "product_id", "quantity",
                                   "store_id", "transaction_date"},
                                  {"transaction_id", "product_id", "quantity",
                                   "transaction_date"} } },
      promotion  : PromotionTables,
      weather    : WeatherTables,
      holiday    : HolidayTables,
      inventory  : InventoryTables ]

Has(parsed, sheet) == parsed[sheet] # NoTable

\* --------------------------------------------------------- the key order
\* the order of the ids as strings
Rank(id) == IF id = "p1" \/ id = "s1" THEN 1 ELSE IF id = "p2" THEN 2 ELSE 0

KeyOf(r) == << Rank(r.product_id), Rank(r.store_id), r.date >>

KeyLess(a, b) ==
    \/ a[1] < b[1]
    \/ a[1] = b[1] /\ a[2] < b[2]
    \/ a[1] = b[1] /\ a[2] = b[2] /\ a[3] < b[3]

\* ------------------------------------------------------ _aggregate_sales
\* a row of the matrix; a column the matrix does not have is Null
FeatureRow(product_id, store_id, date, sales_quantity) ==
    [ product_id |-> product_id, store_id |-> store_id, date |-> date,
      sales_quantity |-> sales_quantity,
      lag_1 |-> Null, lag_7 |-> Null, lag_14 |-> Null, lag_28 |-> Null,
      promotion_active |-> Null, temperature_celsius |-> Null,
      is_holiday |-> Null, stock_quantity |-> Null ]

RECURSIVE SortedKeys(_)
SortedKeys(S) ==
    IF S = {} THEN << >>
    ELSE LET m == CHOOSE x \in S : \A y \in S \ {x} : KeyLess(KeyOf(x), KeyOf(y))
         IN  << m >> \o SortedKeys(S \ {m})

time_columns == {"year", "month", "day", "dayofweek", "dayofyear", "week",
                 "quarter", "is_weekend", "is_month_start", "is_month_end"}

\* df.groupby(group_cols).agg(...).reset_index(): one row per key, in the
\* order of the keys, with the summed quantity
_aggregate_sales(detail) ==
    LET keyed == "store_id" \in detail.columns
        rows  == detail.rows
        keys  == { [product_id |-> rows[k].product_id,
                    store_id   |-> IF keyed THEN rows[k].store_id ELSE "none",
                    date       |-> rows[k].date] : k \in 1..Len(rows) }
        quantity(g) ==
            IntSum([ k \in 1..Len(rows) |->
                       IF /\ rows[k].product_id = g.product_id
                          /\ rows[k].date = g.date
                          /\ (keyed => rows[k].store_id = g.store_id)
                       THEN rows[k].quantity ELSE 0 ])
        sorted == SortedKeys(keys)
    IN  Table(({"product_id", "date", "sales_quantity"} \cup time_columns)
                \cup (IF keyed THEN {"store_id"} ELSE {}),
              [ k \in 1..Len(sorted) |->
                  FeatureRow(sorted[k].product_id, sorted[k].store_id,
                             sorted[k].date, quantity(sorted[k])) ])

\* ----------------------------------------------------- _add_lag_features
lags == << 1, 7, 14, 28 >>

\* the columns sort_values sorts by
SortKey(r, keyed) == IF keyed THEN KeyOf(r) ELSE << 0, 0, r.date >>

\* df.sort_values(sort_cols): rows of equal key keep their order
RECURSIVE sort_values(_, _)
sort_values(rows, keyed) ==
    IF rows = << >> THEN << >>
    ELSE LET k == CHOOSE i \in 1..Len(rows) :
                    /\ \A j \in 1..Len(rows) :
                         ~KeyLess(SortKey(rows[j], keyed), SortKey(rows[i], keyed))
                    /\ \A j \in 1..(i - 1) :
                         KeyLess(SortKey(rows[i], keyed), SortKey(rows[j], keyed))
         IN  << rows[k] >> \o sort_values(Remove(rows, k), keyed)

SameGroup(a, b, keyed) ==
    keyed => a.product_id = b.product_id /\ a.store_id = b.store_id

\* groupby(group_cols)['sales_quantity'].shift(lag) at row i: the value lag
\* rows before it in its group, NaN when the group has fewer rows before it
shift(rows, i, lag, keyed) ==
    LET before == { j \in 1..(i - 1) : SameGroup(rows[j], rows[i], keyed) }
    IN  IF Cardinality(before) < lag THEN Null
        ELSE LET j == CHOOSE x \in before :
                        Cardinality({ y \in before : y > x }) = lag - 1
             IN  rows[j].sales_quantity

_add_lag_features(df) ==
    LET keyed == Keyed(df)
        rows  == sort_values(df.rows, keyed)
    IN  Table(df.columns \cup {"lag_1", "lag_7", "lag_14", "lag_28"},
              [ i \in 1..Len(rows) |->
                  [ rows[i] EXCEPT !.lag_1  = shift(rows, i, lags[1], keyed),
                                   !.lag_7  = shift(rows, i, lags[2], keyed),
                                   !.lag_14 = shift(rows, i, lags[3], keyed),
                                   !.lag_28 = shift(rows, i, lags[4], keyed) ] ])

\* _add_rolling_features adds its columns only when the matrix is keyed;
\* the rows and their order stay.  _add_price_features, which follows it,
\* finds no price column in these transaction sheets and returns the matrix
_add_rolling_features(df) ==
    IF Keyed(df)
    THEN Table(df.columns \cup {"rolling_mean_7", "rolling_std_7", "rolling_max_7"},
               df.rows)
    ELSE df

\* ------------------------------------------------ _add_promotion_features
_add_promotion_features(df, promo_df) ==
    Table(df.columns \cup {"promotion_active"},
          [ i \in 1..Len(df.rows) |->
              [ df.rows[i] EXCEPT !.promotion_active =
                  IF \E k \in 1..Len(promo_df.rows) :
                        /\ df.rows[i].date >= promo_df.rows[k].start_date
                        /\ df.rows[i].date <= promo_df.rows[k].end_date
                  THEN 1 ELSE 0 ] ])

\* -------------------------------------------------- _add_weather_features
\* df.merge(weather_features, on=['date'], how='left'); the matrix has no
\* prefecture column, so date is the only key: a row of the matrix comes
\* out once per weather row of its date
RECURSIVE merge_weather(_, _)
merge_weather(rows, weather_rows) ==
    IF rows = << >> THEN << >>
    ELSE LET r == Head(rows)
             m == SelectSeq(weather_rows, LAMBDA w : w.date = r.date)
         IN  (IF m = << >> THEN << r >>
              ELSE [ k \in 1..Len(m) |->
                       [ r EXCEPT !.temperature_celsius = m[k].temperature_celsius ] ])
             \o merge_weather(Tail(rows), weather_rows)

_add_weather_features(df, weather_df) ==
    Table(df.columns \cup {"temperature_celsius", "precipitation_mm", "humidity_percent"},
          merge_weather(df.rows, weather_df.rows))

\* -------------------------------------------------- _add_holiday_features
\* holiday_df['is_holiday'] = 1, written to the table of parsed_data
MarkedHoliday(holiday_df) ==
    Table(holiday_df.columns \cup {"is_holiday"},
          [ k \in 1..Len(holiday_df.rows) |->
              [date |-> holiday_df.rows[k].date,
               holiday_name |-> holiday_df.rows[k].holiday_name,
               is_holiday |-> 1] ])

\* df.merge(holiday_df[['date', 'is_holiday']], on='date', how='left'), then
\* fillna(0)
RECURSIVE merge_holiday(_, _)
merge_holiday(rows, holiday_rows) ==
    IF rows = << >> THEN << >>
    ELSE LET r == Head(rows)
             m == SelectSeq(holiday_rows, LAMBDA h : h.date = r.date)
         IN  (IF m = << >> THEN << [ r EXCEPT !.is_holiday = 0 ] >>
              ELSE [ k \in 1..Len(m) |-> [ r EXCEPT !.is_holiday = m[k].is_holiday ] ])
             \o merge_holiday(Tail(rows), holiday_rows)

_add_holiday_features(df, holiday_df) ==
    Table(df.columns \cup {"is_holiday"},
          merge_holiday(df.rows, MarkedHoliday(holiday_df).rows))

\* ------------------------------------------------ _add_inventory_features
\* the last stock_quantity of the product (and store), merged on these keys
_add_inventory_features(df, inv_df) ==
    LET keyed == "store_id" \in df.columns
        of(r) == SelectSeq(inv_df.rows,
                           LAMBDA v : /\ v.product_id = r.product_id
                                      /\ (keyed => v.store_id = r.store_id))
    IN  Table(df.columns \cup {"stock_quantity", "reorder_point"},
              [ i \in 1..Len(df.rows) |->
                  [ df.rows[i] EXCEPT !.stock_quantity =
                      IF of(df.rows[i]) = << >> THEN Null
                      ELSE of(df.rows[i])[Len(of(df.rows[i]))].stock_quantity ] ])

\* ---------------------------------------------- generate_forecast_features
\* the matrix it returns
generate_forecast_features(parsed) ==
    LET agg   == _add_rolling_features(_add_lag_features(_aggregate_sales(parsed.detail)))
        promo == IF Has(parsed, "promotion")
                 THEN _add_promotion_features(agg, parsed.promotion) ELSE agg
        wthr  == IF Has(parsed, "weather")
                 THEN _add_weather_features(promo, parsed.weather) ELSE promo
        hol   == IF Has(parsed, "holiday")
                 THEN _add_holiday_features(wthr, parsed.holiday) ELSE wthr
    IN  IF Has(parsed, "inventory")
        THEN _add_inventory_features(hol, parsed.inventory) ELSE hol

\* parsed_data after the call: the transaction sheets are copied before they
\* are written, the weather dates are written back as the timestamps they
\* are, and the holiday table gets its new column
ParsedAfter(parsed) ==
    IF Has(parsed, "holiday")
    THEN [ parsed EXCEPT !.holiday = MarkedHoliday(@) ]
    ELSE parsed

\* ------------------------------------------------ ForecastingPipeline.train
min_rows == 100

\* df.dropna(subset=['sales_quantity'])
dropna(df) == Table(df.columns, SelectSeq(df.rows, LAMBDA r : r.sales_quantity # Null))

\* what logger.warning writes when the rows are few: a line of the log
TrainLog(df) ==
    IF Len(df.rows) < min_rows THEN << [level |-> "warning", msg |-> "few_rows"] >>
    ELSE << >>

\* LightGBMForecaster.fit: X.iloc[:split_idx] and X.iloc[split_idx:]
TrainRows(df) == SubSeq(df.rows, 1, split_idx(df))
ValidRows(df) == SubSeq(df.rows, split_idx(df) + 1, Len(df.rows))

MetricKeys == {"mae", "rmse", "mape"}

\* ------------------------------------------------------------ the calls
\* a FeatureEngine is built on the tables of a workbook
InitFe ==
    /\ InitApp
    /\ reco = NoCall
    /\ fcst \in { [ phase       |-> "parsed",
                    before      |-> parsed,
                    parsed_data |-> parsed,
                    features_df |-> EmptyMatrix,
                    pipeline    |-> NoPipeline,
                    log         |-> << >>,
                    train_rows  |-> << >>,
                    valid_rows  |-> << >>,
                    result      |-> NoResult ] : parsed \in ParsedData }

\* FeatureEngine(parsed).generate_forecast_features()
FeGenerate ==
    /\ fcst.phase = "parsed"
    /\ fcst' = [fcst EXCEPT
                  !.phase = "features",
                  !.features_df = generate_forecast_features(fcst.parsed_data),
                  !.parsed_data = ParsedAfter(@)]
    /\ UNCHANGED << appvars, reco >>

\* ForecastingPipeline(features_df).train()
FeTrain ==
    /\ fcst.phase = "features"
    /\ LET pl == ForecastingPipeline(fcst.features_df)
           df == dropna(pl.features_df)
       IN  \E raises \in LgbTrainRaises(df), booster \in Boosters :
             fcst' = [fcst EXCEPT
                        !.phase = IF raises THEN "failed" ELSE "trained",
                        !.pipeline =
                            [ PipelineTrain([pl EXCEPT !.features_df = df], raises,
                                            IF raises THEN NoModel ELSE booster)
                                EXCEPT !.features_df = pl.features_df ],
                        !.log = @ \o TrainLog(df),
                        !.train_rows = TrainRows(df),
                        !.valid_rows = ValidRows(df),
                        !.result = IF raises THEN Raise("lgb.train")
                                   ELSE [metrics |-> MetricKeys]]
    /\ UNCHANGED << appvars, reco >>

NextFe ==
    \/ FeGenerate
    \/ FeTrain

SpecFe == InitFe /\ [][NextFe]_vars

\* --------------------------------------------------------------- C21
Generated == fcst.phase \in {"features", "trained", "failed"}

\* C21 (as claimed): the rows of the matrix generate_forecast_features
\* returns are in strictly increasing (product_id, store_id, date) order,
\* whichever optional tables are joined in.
C21_RowsStrictlyOrdered ==
    (Generated /\ Keyed(fcst.features_df)) =>
        \A i \in 1..(Len(fcst.features_df.rows) - 1) :
            KeyLess(KeyOf(fcst.features_df.rows[i]),
                    KeyOf(fcst.features_df.rows[i + 1]))

\* --------------------------------------------------------------- C22
\* the rows of a (product_id, store_id) group, in the order of the matrix
GroupRows(df, product_id, store_id) ==
    SelectSeq(df.rows, LAMBDA r : r.product_id = product_id /\ r.store_id = store_id)

Lagged(group, i, k) == IF i <= k THEN Null ELSE group[i - k].sales_quantity

\* C22 (as claimed): in the feature matrix, lag_k of the row at position i
\* of its (product_id, store_id) group is the sales_quantity of the row at
\* position i-k of the group, and null when fewer than k rows precede it.
C22_LagIsPositional ==
    (Generated /\ Keyed(fcst.features_df)) =>
        \A pair \in Pairs :
            LET group == GroupRows(fcst.features_df, pair[1], pair[2])
            IN  \A i \in 1..Len(group) :
                    /\ group[i].lag_1  = Lagged(group, i, 1)
                    /\ group[i].lag_7  = Lagged(group, i, 7)
                    /\ group[i].lag_14 = Lagged(group, i, 14)
                    /\ group[i].lag_28 = Lagged(group, i, 28)

\* --------------------------------------------------------------- C23
\* C23 (as claimed): after generate_forecast_features every table of
\* parsed_data has the columns and the values it had before the call.
C23_InputTablesUnchanged ==
    Generated => fcst.parsed_data = fcst.before

\* --------------------------------------------------------------- C24
\* the warning is held by an attribute of the pipeline or by the result
WarningRecorded ==
    \/ "warnings" \in DOMAIN fcst.pipeline
    \/ "warnings" \in DOMAIN fcst.result
    \/ "warning" \in fcst.result.metrics

\* C24 (as claimed): a train() on fewer than min_rows rows that returns has
\* fitted both models, returns mae, rmse and mape, and the pipeline has
\* recorded a data-sufficiency warning that comes with the result.
C24_FewRowsWarned ==
    (fcst.phase = "trained" /\ Len(dropna(fcst.features_df).rows) < min_rows) =>
        /\ fcst.pipeline.baseline_model = BaselineFit(dropna(fcst.features_df))
        /\ fcst.pipeline.lgbm_model.model # NoModel
        /\ fcst.result.metrics = MetricKeys
        /\ WarningRecorded

\* --------------------------------------------------------------- C27
\* C27 (as claimed): no row of the training part of the split is dated
\* later than a row of the validation part.
C27_SplitIsChronological ==
    fcst.phase \in {"trained", "failed"} =>
        \A i \in 1..Len(fcst.train_rows), j \in 1..Len(fcst.valid_rows) :
            fcst.train_rows[i].date <= fcst.valid_rows[j].date

\* ================================================ content recommender
\* models/recommendation.py: a ContentBasedRecommender taken alone, on
\* catalogues that may hold products of equal features
\* the similarities of the pairs (i1,i2), (i1,i3), (i2,i3); two products of
\* similarity 1.0 have the same features, hence the same similarity to the
\* third
ContentTieSims ==
    { t \in [1..3 -> 1..SimOne] :
        /\ t[1] = SimOne => t[2] = t[3]
        /\ t[2] = SimOne => t[1] = t[3]
        /\ t[3] = SimOne => t[1] = t[2] }

InitCb ==
    /\ InitApp
    /\ fcst = NoCall
    /\ reco = [ phase |-> "fresh", content |-> ContentBasedRecommender,
                call |-> NoArgs, result |-> NoResult ]

\* ContentBasedRecommender().fit(product_df)
CbFit(product_variant, t) ==
    /\ reco.phase = "fresh"
    /\ reco' = [ reco EXCEPT !.phase = "fitted",
                   !.content = ContentFit(@, ProductFrame(product_variant), t) ]
    /\ UNCHANGED << appvars, fcst >>

\* content.recommend(product_id, top_k)
CbRecommend(product_id, top_k, order) ==
    /\ reco.phase = "fitted"
    /\ reco.call = NoArgs
    /\ order \in argsort(reco.content, product_id)
    /\ reco' = [ reco EXCEPT
                   !.call = [ fn |-> "content_recommend",
                              product_id |-> product_id, top_k |-> top_k ],
                   !.result = ContentRecommend(reco.content, product_id,
                                               top_k, order) ]
    /\ UNCHANGED << appvars, fcst >>

NextCb ==
    \/ \E product_variant \in {"categories", "plain"}, t \in ContentTieSims :
          CbFit(product_variant, t)
    \/ \E product_id \in Items \cup {"i9"}, top_k \in TopKs, order \in Orders :
          CbRecommend(product_id, top_k, order)

SpecCb == InitCb /\ [][NextCb]_vars

\* --------------------------------------------------------------- C30
\* C30 (as claimed): recommend(product_id, top_k) of a fitted content
\* recommender never returns product_id itself and returns the top_k other
\* products of highest similarity to it, also when another product ties
\* with product_id's similarity to itself.
C30_NeverSelfTopOthers ==
    ( /\ reco.phase = "fitted" /\ reco.call # NoArgs
      /\ reco.content.fitted
      /\ InSeq(reco.call.product_id, reco.content.product_ids) ) =>
        LET product_id == reco.call.product_id
            value      == reco.result.value
            returned   == { value[k][1] : k \in 1..Len(value) }
            others     == Items \ {product_id}
            sim(i)     == reco.content.similarity_matrix[<< product_id, i >>]
        IN  /\ product_id \notin returned
            /\ Len(value) = Min(reco.call.top_k, Cardinality(others))
            /\ Cardinality(returned) = Len(value)
            /\ \A i \in returned, j \in others \ returned : sim(i) >= sim(j)
            /\ \A k \in 1..Len(value) : value[k][2] = sim(value[k][1])

====
